---- MODULE Spec2Model ----
(***************************************************************************)
(* A model of the "Mira" second-brain bot (truerooha/mira): the message    *)
(* handlers of bot.py, the SQLite tables written through database.py, the  *)
(* in-memory job queue that delivers reminders, the rule-based extractor   *)
(* of categorization.py and the date/time resolver of bot.py and           *)
(* date_parser.py.                                                         *)
(*                                                                         *)
(* Time.  A wall-clock reading is a pair [day, sec]: the proleptic         *)
(* Gregorian ordinal of the date (date.toordinal()) and the second of the  *)
(* day; the clock is read in whole seconds.  A datetime is a reading with  *)
(* the UTC offset of its zone (in seconds) and a flag telling whether it   *)
(* carries a zone at all (aware) or not (naive).  An instant is the UTC    *)
(* reading.  strftime('%Y-%m-%d %H:%M:%S') keeps the reading and drops the *)
(* zone, which is what add_reminder stores; SQLite compares such strings   *)
(* lexicographically, i.e. as readings, and its CURRENT_TIMESTAMP is the   *)
(* UTC reading.                                                            *)
(***************************************************************************)
EXTENDS Integers, Sequences, FiniteSets, TLC

\* ------------------------------------------------------------------ bounds
MaxHours     == 2      \* the clock advances at most this many hours
MaxEntries   == 1      \* rows of table entries the handlers may create
MaxRestarts  == 1      \* process restarts
MaxParses    == 1      \* calls made straight to the date parser
MaxCalls     == 3      \* calls made straight to the database manager
MaxNotes     == 2      \* notes saved before the searches
MaxSearches  == 2      \* calls made straight to the search and tell engines
MaxSends     == 3      \* release announcements sent or tried
MaxFound     == 4      \* entities, and entries, in search results given to the composer
MaxReplies   == 1      \* calls made straight to the response composer
MaxLookups   == 1      \* calls made straight to the search engine for either user

Users == {1, 2}

\* ---------------------------------------------------------------- readings
HOUR == 60 * 60
DAY  == 24 * HOUR
\* date(y, m, d).toordinal(): days since 0001-01-01, that day being 1
IsLeap(y) == (y % 4 = 0 /\ y % 100 # 0) \/ y % 400 = 0
DaysInMonth(y, m) ==
  IF m = 2 THEN (IF IsLeap(y) THEN 29 ELSE 28)
  ELSE IF m \in {4, 6, 9, 11} THEN 30 ELSE 31
RECURSIVE DaysBeforeMonth(_, _)
DaysBeforeMonth(y, m) ==
  IF m = 1 THEN 0 ELSE DaysBeforeMonth(y, m - 1) + DaysInMonth(y, m - 1)
toordinal(y, m, d) ==
  365 * (y - 1) + ((y - 1) \div 4) - ((y - 1) \div 100) + ((y - 1) \div 400)
    + DaysBeforeMonth(y, m) + d
\* date.max, 9999-12-31, past which datetime arithmetic raises OverflowError
MAXORD == toordinal(9999, 12, 31)
\* 2026-11-03, a Tuesday: the day the modelled runs start on
StartDay == toordinal(2026, 11, 3)
\* USER_TZ and the zone of the host: west of, at, and east of UTC
TzOffsets == {0 - HOUR, 0, HOUR}

Norm(d, s) == [day |-> d + (s \div DAY), sec |-> s % DAY]
PlusSeconds(t, s) == Norm(t.day, t.sec + s)
Before(a, b) == a.day < b.day \/ (a.day = b.day /\ a.sec < b.sec)
AtOrBefore(a, b) == a.day < b.day \/ (a.day = b.day /\ a.sec <= b.sec)

Reading(dt) == [day |-> dt.day, sec |-> dt.sec]
Aware(t, o) == [day |-> t.day, sec |-> t.sec, off |-> o, aware |-> TRUE]
Naive(t)    == [day |-> t.day, sec |-> t.sec, off |-> 0, aware |-> FALSE]
\* the UTC reading of an aware datetime
Instant(dt) == Norm(dt.day, dt.sec - dt.off)
\* datetime.now(zone) for the UTC reading utcnow
now_in(utcnow, o) == Aware(PlusSeconds(utcnow, o), o)
\* dt.astimezone(zone): the same instant read in another zone
astimezone(dt, o) == Aware(PlusSeconds(Instant(dt), o), o)
\* dt.replace(tzinfo=zone): the same reading, labelled with a zone
replace_tzinfo(dt, o) == Aware(Reading(dt), o)
\* dt.replace(hour=h, minute=m, second=0, microsecond=0), h and m in range
replace_time(dt, h, m) == [dt EXCEPT !.sec = h * HOUR + m * 60]
\* date.weekday(): Monday is 0
weekday(d) == (d + 6) % 7

\* trigger_date.strftime('%Y-%m-%d %H:%M:%S'): the reading, zone dropped
strftime(dt) == Reading(dt)
\* datetime.fromisoformat of a stored 'YYYY-MM-DD HH:MM:SS': a naive datetime
fromisoformat(str) == Naive(str)

VARIABLES
  now,            \* the current instant (UTC reading)
  tz,             \* USER_TZINFO, as a UTC offset (bot.py:84)
  systz,          \* the host's local zone, which naive datetime.now() reads
  deepseek,       \* TRUE when DEEPSEEK_API_KEY is set (bot.py:107-110)
  pc,             \* "down" before main() has run, "running" under run_polling
  epoch,          \* how many times the process has been started
  job_queue,      \* TRUE when app.job_queue is initialised (bot.py:803-812)
  entries,        \* table entries: sequence of rows, id = index
  entities,       \* table entities
  tags,           \* table tags
  entry_entities, \* table entry_entities: set of links
  entry_tags,     \* table entry_tags: set of links
  reminders,      \* table reminders
  user_versions,  \* table user_versions: user_id -> last_seen_version
  jobs,           \* the run_once jobs pending in the job queue (in memory)
  outbox,         \* the delivery transport: every reminder send attempted
  msg,            \* the update handled last, with what its collaborators did
  reply,          \* what the handler made of the "thinking" message
  resolved,       \* what parse_reminder_datetime made of msg.text
  calls,          \* the calls made straight to the library modules
                  \* (date_parser, database, smart_search, smart_tell), in
                  \* order, each with its arguments and what it returned
  sessions        \* the callers that are inside add_entity or add_tag, each
                  \* with the statement it executes next

tables == <<entries, entities, tags, entry_entities, entry_tags, reminders>>
config == <<tz, systz, deepseek>>
library == <<calls, sessions>>
vars == <<now, tz, systz, deepseek, pc, epoch, job_queue, entries, entities,
          tags, entry_entities, entry_tags, reminders, user_versions, jobs,
          outbox, msg, reply, resolved, calls, sessions>>

\* ------------------------------------------------------------ database.py
NoDate == [isnull |-> TRUE, day |-> 0, sec |-> 0]
Stored(t) == [isnull |-> FALSE, day |-> t.day, sec |-> t.sec]

\* reminders.status DEFAULT of the schema (database_schema.sql)
DEFAULT_STATUS == "active"

add_reminder(rs, user_id, text, trigger_date, entry_id) ==
  Append(rs, [user_id      |-> user_id,
              text         |-> text,
              trigger_date |-> Stored(strftime(trigger_date)),
              entry_id     |-> entry_id,
              status       |-> DEFAULT_STATUS])

\* WHERE status = 'active' AND trigger_date IS NOT NULL
\*   AND trigger_date > CURRENT_TIMESTAMP   (the ORDER BY is immaterial to
\* main(), whose registrations commute)
get_future_active_reminders(rs, utcnow) ==
  {i \in DOMAIN rs : /\ rs[i].status = "active"
                     /\ ~rs[i].trigger_date.isnull
                     /\ Before(utcnow, rs[i].trigger_date)}

\* variant: the row is deleted instead of updated
mark_reminder_completed_deletes(rs, reminder_id) ==
  [i \in 1 .. Len(rs) - 1 |-> IF i < reminder_id THEN rs[i] ELSE rs[i + 1]]

\* mark_reminder_completed (database.py:341-354)
mark_reminder_completed(rs, reminder_id) ==
  [i \in DOMAIN rs |-> IF i = reminder_id
                       THEN [rs[i] EXCEPT !.status = "completed"]
                       ELSE rs[i]]

\* ----------------------------------------------------------- the job queue
\* jobs is a bag of job records: job |-> how many pending registrations
Job(row, when) ==
  [name |-> row.id, user_id |-> row.user_id, text |-> row.text, when |-> when]
run_once(js, job) ==
  IF job \in DOMAIN js THEN [js EXCEPT ![job] = @ + 1]
  ELSE [j \in DOMAIN js \cup {job} |-> IF j = job THEN 1 ELSE js[j]]
remove_job(js, job) ==
  IF js[job] > 1 THEN [js EXCEPT ![job] = @ - 1]
  ELSE [j \in DOMAIN js \ {job} |-> js[j]]
EmptyJobs == [j \in {} |-> 0]
\* how many members of a bag lie in S
RECURSIVE Count(_, _)
Count(bag, S) ==
  IF S = {} THEN 0
  ELSE LET x == CHOOSE y \in S : TRUE IN bag[x] + Count(bag, S \ {x})
\* how many pending jobs are named reminder_<id>
Registered(js, id) == Count(js, {j \in DOMAIN js : j.name = id})

\* variant: no comparison with now
schedule_reminder_no_past_check(jq, js, row, utcnow) ==
  IF ~jq THEN js
  ELSE LET run_at == IF row.trigger_date.aware THEN row.trigger_date
                     ELSE replace_tzinfo(row.trigger_date, tz)
       IN run_once(js, Job(row, Instant(astimezone(run_at, 0))))

\* variant: a trigger equal to now is still scheduled
schedule_reminder_at_now(jq, js, row, utcnow) ==
  IF ~jq THEN js
  ELSE LET run_at == IF row.trigger_date.aware THEN row.trigger_date
                     ELSE replace_tzinfo(row.trigger_date, tz)
           at_jq  == astimezone(run_at, 0)
       IN IF Before(Instant(at_jq), utcnow) THEN js
          ELSE run_once(js, Job(row, Instant(at_jq)))

\* schedule_reminder (bot.py:352-385).  reminder_row.trigger_date is either
\* the stored naive string (main) or an aware isoformat string (the
\* handlers); the job queue's own zone is UTC unless main() built the
\* fallback queue in USER_TZINFO: either way astimezone keeps the instant.
schedule_reminder(jq, js, row, utcnow) ==
  IF ~jq THEN js
  ELSE LET run_at == IF row.trigger_date.aware THEN row.trigger_date
                     ELSE replace_tzinfo(row.trigger_date, tz)
           at_jq  == astimezone(run_at, 0)
       IN IF AtOrBefore(Instant(at_jq), utcnow) THEN js
          ELSE run_once(js, Job(row, Instant(at_jq)))

\* -------------------------------------------------------------------- text
\* A text is a sequence of tokens, its words in order, written with single
\* spaces between them.  A token is a record [k, a, b, c]: k is the word
\* itself for the words the rules look for, "w" for any other word, "num" for
\* a digit string of value a, "hm" for a clock reading a:b with two-digit
\* minutes, "dmy" for a.b.c or a/b/c with a four-digit c, "ymd" for a-b-c
\* with a four-digit a.  Russian words are written in Latin transliteration ("napomni"
\* is напомни, "v" is в, "cherez" is через).  A string is a text with two flags: whether it holds upper-case
\* letters and whether it has leading or trailing white space.
T(k)        == [k |-> k, a |-> 0, b |-> 0, c |-> 0]
Num(n)      == [k |-> "num", a |-> n, b |-> 0, c |-> 0]
Clock(h, m) == [k |-> "hm", a |-> h, b |-> m, c |-> 0]
Dotted(d, m, y) == [k |-> "dmy", a |-> d, b |-> m, c |-> y]
Dashed(y, m, d) == [k |-> "ymd", a |-> y, b |-> m, c |-> d]
Str(toks)   == [toks |-> toks, cased |-> FALSE, padded |-> FALSE]
lower(str)  == [str EXCEPT !.cased = FALSE]
strip(str)  == [str EXCEPT !.padded = FALSE]
Slice(toks, i, j) == [x \in 1 .. (j - i + 1) |-> toks[i + x - 1]]
Min(S) == CHOOSE x \in S : \A y \in S : x <= y
\* the lists that hold every element of S once
Orderings(S) ==
  {q \in [1 .. Cardinality(S) -> S] : \A x \in S : \E i \in DOMAIN q : q[i] = x}

\* --------------------------------------------------------- categorization.py
\* The templates of _load_templates whose trigger words a text of the
\* modelled vocabulary can hold: the four "reminders" patterns and the
\* second "events" pattern.  Every other pattern needs a word outside it.
KeywordAt(toks, i)  == toks[i].k = "napomni"
TomorrowAt(toks, i) == toks[i].k = "zavtra"
AtClockAt(toks, i)  == /\ toks[i].k = "v" /\ i < Len(toks)
                       /\ toks[i + 1].k = "hm"
WeekdayAccusative == {"ponedelnik", "vtornik", "sredu", "chetverg",
                      "pyatnitsu", "subbotu", "voskresenye"}
AtWeekdayAt(toks, i) == /\ toks[i].k \in {"v", "na"} /\ i < Len(toks)
                        /\ toks[i + 1].k \in WeekdayAccusative

\* re.finditer of r"(?:напомни|не забудь|надо|нужно)\s+(.+?)(?:\s|$)": the
\* keyword and the word after it; the scan resumes after that word
RECURSIVE KeywordMatches(_, _)
KeywordMatches(toks, s) ==
  LET hits == {i \in s .. Len(toks) - 1 : KeywordAt(toks, i)}
  IN IF hits = {} THEN <<>>
     ELSE LET i == Min(hits)
          IN <<[from |-> i, to |-> i + 1, key |-> i]>>
             \o KeywordMatches(toks, i + 2)

\* re.finditer of r"(.+?)\s+KEY": from the start of the scan to the first KEY
\* that has a word before it; the scan resumes right after KEY.  kind names
\* KEY, width is its length in words.
KeyAt(kind, toks, i) ==
  CASE kind = "tomorrow" -> TomorrowAt(toks, i)
    [] kind = "clock"    -> AtClockAt(toks, i)
    [] kind = "weekday"  -> AtWeekdayAt(toks, i)
RECURSIVE LazyMatches(_, _, _, _)
LazyMatches(kind, width, toks, s) ==
  LET hits == {i \in s + 1 .. Len(toks) : KeyAt(kind, toks, i)}
  IN IF hits = {} THEN <<>>
     ELSE LET i == Min(hits)
          IN <<[from |-> s, to |-> i + width - 1, key |-> i]>>
             \o LazyMatches(kind, width, toks, i + width)

ReminderMatches(toks) ==
  KeywordMatches(toks, 1) \o LazyMatches("tomorrow", 1, toks, 1)
  \o LazyMatches("clock", 2, toks, 1) \o LazyMatches("weekday", 2, toks, 1)
EventMatches(toks) == LazyMatches("tomorrow", 1, toks, 1)

\* extract_entities (categorization.py:100-151) on text.lower()
extract_entities(text) ==
  LET toks == lower(text).toks
      rem  == ReminderMatches(toks)
      evt  == EventMatches(toks)
      \* "reminders": extract_name is False, the name is match.group(0)
      remEnt == [i \in 1 .. Len(rem) |->
                  [name |-> Str(Slice(toks, rem[i].from, rem[i].to)),
                   type |-> "reminder", template |-> "reminders",
                   keys |-> {"name", "type", "confidence"}]]
      \* "events": the name is match.group(1), the words before KEY
      evtEnt == [i \in 1 .. Len(evt) |->
                  [name |-> Str(Slice(toks, evt[i].from, evt[i].key - 1)),
                   type |-> "event", template |-> "events",
                   keys |-> {"name", "type", "confidence"}]]
  IN [entities  |-> remEnt \o evtEnt,
      tags      |-> (IF Len(rem) > 0
                     THEN {Str(<<T("#napominaniya")>>), Str(<<T("#zadachi")>>)}
                     ELSE {})
                    \cup (IF Len(evt) > 0
                          THEN {Str(<<T("#sobytiya")>>), Str(<<T("#plany")>>)}
                          ELSE {}),
      reminders |-> [i \in 1 .. Len(rem) |->
                      [text |-> remEnt[i].name, keys |-> {"text"}]]]

\* CategorizationEngine.categorize_text (categorization.py:177-204): the
\* extraction result; the dict has a "reminders" key and no "categories" key
categorize_text(text) ==
  LET r == extract_entities(text)
  IN [entities |-> r.entities, tags |-> r.tags, reminders |-> r.reminders,
      keys |-> {"entities", "tags", "reminders", "temporal_info",
                "confidence"}]

\* ------------------------------------------------------------ date_parser.py
\* datetime.now(): the naive reading of the host's clock
naive_now(utcnow) == Naive(PlusSeconds(utcnow, systz))
plus_days(dt, n) == [dt EXCEPT !.day = @ + n]
HasWord(toks, k) == \E i \in DOMAIN toks : toks[i].k = k

\* variant: a weekday already behind in this week is not moved to the next
get_weekday_date_no_wrap(utcnow, target_weekday) ==
  plus_days(naive_now(utcnow), target_weekday - weekday(naive_now(utcnow).day))

\* _get_weekday_date (date_parser.py:250-262)
get_weekday_date(utcnow, target_weekday) ==
  LET today      == naive_now(utcnow)
      days_ahead == target_weekday - weekday(today.day)
  IN plus_days(today, IF days_ahead <= 0 THEN days_ahead + 7 ELSE days_ahead)

NoDatetime == [found |-> FALSE, dt |-> Naive([day |-> 0, sec |-> 0])]
Found(dt)  == [found |-> TRUE, dt |-> dt]

\* weekday_names with the patterns of relative_patterns (date_parser.py:
\* 25-31, 60-63): the name alone, or the preposition and the accusative
weekday_names ==
  <<[nom |-> "ponedelnik",  prep |-> "v",  acc |-> "ponedelnik"],
    [nom |-> "vtornik",     prep |-> "vo", acc |-> "vtornik"],
    [nom |-> "sreda",       prep |-> "v",  acc |-> "sredu"],
    [nom |-> "chetverg",    prep |-> "v",  acc |-> "chetverg"],
    [nom |-> "pyatnitsa",   prep |-> "v",  acc |-> "pyatnitsu"],
    [nom |-> "subbota",     prep |-> "v",  acc |-> "subbotu"],
    [nom |-> "voskresenye", prep |-> "v",  acc |-> "voskresenye"]>>

\* re.search(self.relative_patterns[day_name], text_lower), day_num = n - 1
WeekdayNamed(toks, n) ==
  \/ HasWord(toks, weekday_names[n].nom)
  \/ \E i \in 1 .. Len(toks) - 1 : /\ toks[i].k = weekday_names[n].prep
                                   /\ toks[i + 1].k = weekday_names[n].acc
NamedWeekdays(toks) == {n \in DOMAIN weekday_names : WeekdayNamed(toks, n)}

\* _find_relative_date (date_parser.py:116-198), for the words of the
\* modelled vocabulary: сегодня, вчера, позавчера, then the weekday names
\* in the order of weekday_names
find_relative_date(toks, utcnow) ==
  IF HasWord(toks, "segodnya") THEN Found(naive_now(utcnow))
  ELSE IF HasWord(toks, "vchera") THEN Found(plus_days(naive_now(utcnow), 0 - 1))
  ELSE IF HasWord(toks, "pozavchera")
       THEN Found(plus_days(naive_now(utcnow), 0 - 2))
  ELSE IF NamedWeekdays(toks) # {}
       THEN Found(get_weekday_date(utcnow, Min(NamedWeekdays(toks)) - 1))
  ELSE NoDatetime

\* month_names (date_parser.py:66-70)
month_names ==
  [k \in {"yanvarya", "fevralya", "marta", "aprelya", "maya", "iyunya",
          "iyulya", "avgusta", "sentyabrya", "oktyabrya", "noyabrya",
          "dekabrya"} |->
     CASE k = "yanvarya" -> 1 [] k = "fevralya" -> 2 [] k = "marta" -> 3
       [] k = "aprelya" -> 4 [] k = "maya" -> 5 [] k = "iyunya" -> 6
       [] k = "iyulya" -> 7 [] k = "avgusta" -> 8 [] k = "sentyabrya" -> 9
       [] k = "oktyabrya" -> 10 [] k = "noyabrya" -> 11
       [] k = "dekabrya" -> 12]

\* datetime(year, month, day): ValueError outside the calendar
ValidDate(y, m, d) ==
  /\ 1 <= y /\ y <= 9999 /\ 1 <= m /\ m <= 12
  /\ 1 <= d /\ d <= DaysInMonth(y, m)
datetime(y, m, d) ==
  IF ValidDate(y, m, d)
  THEN Found(Naive([day |-> toordinal(y, m, d), sec |-> 0]))
  ELSE NoDatetime

FourDigits(n) == 1000 <= n /\ n <= 9999

\* the first match of r'\b(\d{1,2})\s+(января|...)\s+(\d{4})\b'
MonthNameAt(toks, i) ==
  /\ i + 2 <= Len(toks)
  /\ toks[i].k = "num" /\ toks[i].a < 100
  /\ toks[i + 1].k \in DOMAIN month_names
  /\ toks[i + 2].k = "num" /\ FourDigits(toks[i + 2].a)
month_name_date(toks) ==
  LET hits == {i \in DOMAIN toks : MonthNameAt(toks, i)}
  IN IF hits = {} THEN NoDatetime
     ELSE datetime(toks[Min(hits) + 2].a, month_names[toks[Min(hits) + 1].k],
                   toks[Min(hits)].a)

\* the first match of r'\b(\d{1,2})[./](\d{1,2})[./](\d{4})\b'.  The
\* pattern ends with \b, so pattern.endswith(r'\b') holds and the groups
\* are unpacked as year, month, day (date_parser.py:222-226)
dotted_date(toks) ==
  LET hits == {i \in DOMAIN toks : toks[i].k = "dmy"}
  IN IF hits = {} THEN NoDatetime
     ELSE datetime(toks[Min(hits)].a, toks[Min(hits)].b, toks[Min(hits)].c)

\* the first match of r'\b(\d{4})-(\d{1,2})-(\d{1,2})\b'
dashed_date(toks) ==
  LET hits == {i \in DOMAIN toks : toks[i].k = "ymd"}
  IN IF hits = {} THEN NoDatetime
     ELSE datetime(toks[Min(hits)].a, toks[Min(hits)].b, toks[Min(hits)].c)

\* _find_absolute_date (date_parser.py:200-237): the patterns in order, a
\* ValueError passes to the next pattern
find_absolute_date(toks) ==
  IF month_name_date(toks).found THEN month_name_date(toks)
  ELSE IF dotted_date(toks).found THEN dotted_date(toks)
  ELSE dashed_date(toks)

\* _find_time_of_day (date_parser.py:239-248): the first of утром, днем,
\* вечером, ночью, in that order, that the text holds
find_time_of_day(toks) ==
  IF HasWord(toks, "utrom") THEN "utrom"
  ELSE IF HasWord(toks, "dnem") THEN "dnem"
  ELSE IF HasWord(toks, "vecherom") THEN "vecherom"
  ELSE IF HasWord(toks, "nochyu") THEN "nochyu"
  ELSE "None"

\* SmartDateParser.parse_text (date_parser.py:72-114); confidence in tenths.
\* time_info is looked for only when no date was found.
parse_text(text, utcnow) ==
  LET toks == lower(text).toks
      rel  == find_relative_date(toks, utcnow)
      abs  == find_absolute_date(toks)
  IN IF rel.found
     THEN [datetime |-> rel, time_info |-> "None", confidence |-> 9]
     ELSE IF abs.found
     THEN [datetime |-> abs, time_info |-> "None", confidence |-> 8]
     ELSE LET tod == find_time_of_day(toks)
          IN [datetime |-> NoDatetime, time_info |-> tod,
              confidence |-> IF tod = "None" THEN 0 ELSE 3]

\* ------------------------------------------------- parse_reminder_datetime
\* timedelta's largest magnitude in days
MAX_DELTA_DAYS == 999999999
NoDelta == [days |-> 0, secs |-> 0, overflow |-> FALSE]

\* _normalize_unit (bot.py:215-229) of a word the unit regex matched
normalize_unit(k) ==
  CASE k = "sekund" -> "seconds"
    [] k = "minut"  -> "minutes"
    [] k \in {"chas", "chasa", "chasov"} -> "hours"
    [] k \in {"dnya", "dney"} -> "days"
    [] OTHER -> "None"
IsUnitWord(k) == normalize_unit(k) # "None"

\* timedelta(<unit>=amount), bot.py:241-254
timedelta(unit_key, amount) ==
  LET d == CASE unit_key = "seconds" -> [days |-> amount \div DAY,
                                          secs |-> amount % DAY]
             [] unit_key = "minutes" -> [days |-> amount \div (24 * 60),
                                          secs |-> (amount % (24 * 60)) * 60]
             [] unit_key = "hours"   -> [days |-> amount \div 24,
                                          secs |-> (amount % 24) * HOUR]
             [] unit_key = "days"    -> [days |-> amount, secs |-> 0]
  IN [days |-> d.days, secs |-> d.secs, overflow |-> d.days > MAX_DELTA_DAYS]

add_delta(x, y) ==
  LET secs == x.secs + y.secs
      days == x.days + y.days + (secs \div DAY)
  IN [days |-> days, secs |-> secs % DAY,
      overflow |-> x.overflow \/ y.overflow \/ days > MAX_DELTA_DAYS]

\* the digits that re.findall's (\d+) takes before a unit word
DigitsBeforeUnit(tok) ==
  CASE tok.k = "hm" -> tok.b
    [] tok.k \in {"dmy", "ymd"} -> tok.c
    [] OTHER -> tok.a

\* the sum over re.findall(r"(\d+)\s*(<unit>)", after_keyword), bot.py:238-254
RECURSIVE SumPairs(_, _)
SumPairs(toks, i) ==
  IF i >= Len(toks) THEN NoDelta
  ELSE IF toks[i].k \in {"num", "hm", "dmy", "ymd"}
          /\ IsUnitWord(toks[i + 1].k)
       THEN add_delta(timedelta(normalize_unit(toks[i + 1].k),
                                DigitsBeforeUnit(toks[i])),
                      SumPairs(toks, i + 2))
       ELSE SumPairs(toks, i + 1)

\* singular_patterns (bot.py:257-270): of the modelled vocabulary only
\* "час" is one of the bare idioms
singular_total(toks) ==
  IF HasWord(toks, "chas") THEN timedelta("hours", 1) ELSE NoDelta

\* _extract_relative_delta (bot.py:231-272)
extract_relative_delta(toks) ==
  IF ~HasWord(toks, "cherez") THEN [some |-> FALSE, delta |-> NoDelta]
  ELSE LET first == Min({i \in DOMAIN toks : toks[i].k = "cherez"})
           after_keyword == Slice(toks, first + 1, Len(toks))
           total == SumPairs(after_keyword, 1)
           final == IF total.days = 0 /\ total.secs = 0 /\ ~total.overflow
                    THEN singular_total(after_keyword) ELSE total
       IN [some |-> final.overflow \/ final.days > 0 \/ final.secs > 0,
           delta |-> final]

\* re.search(r"\bв\s*(\d{1,2})(?::(\d{2}))?\s*(утра|дня|вечера|ночи)?\b", t):
\* the first "в" followed by a number of one or two digits, by a clock
\* reading or by a dotted date (whose day the digits are), with the
\* qualifier word after it, if any
ClockClauseAt(toks, i) ==
  /\ toks[i].k = "v" /\ i < Len(toks)
  /\ \/ toks[i + 1].k = "hm"
     \/ toks[i + 1].k \in {"num", "dmy"} /\ toks[i + 1].a < 100
Qualifiers == {"utra", "dnya", "vechera", "nochi"}
clock_clause(toks) ==
  LET hits == {i \in DOMAIN toks : ClockClauseAt(toks, i)}
  IN IF hits = {} THEN [found |-> FALSE, hour |-> 0, minute |-> 0, tod |-> "None"]
     ELSE LET i == Min(hits)
          IN [found  |-> TRUE,
              hour   |-> toks[i + 1].a,
              minute |-> IF toks[i + 1].k = "hm" THEN toks[i + 1].b ELSE 0,
              tod    |-> IF /\ i + 2 <= Len(toks) /\ toks[i + 1].k # "dmy"
                            /\ toks[i + 2].k \in Qualifiers
                         THEN toks[i + 2].k ELSE "None"]

\* the hour after the 12-hour conversion, bot.py:302-307
converted_hour(hour, tod) ==
  IF tod \in {"vechera", "nochi", "dnya"} /\ 1 <= hour /\ hour <= 11
  THEN hour + 12 ELSE hour

\* the hour of a qualitative time-of-day word, bot.py:316-325, 329-336
tod_hour(time_info) ==
  CASE time_info = "vecherom" -> 19
    [] time_info = "utrom"    -> 9
    [] time_info = "dnem"     -> 13
    [] time_info = "nochyu"   -> 23

Raised(kind) == [raises |-> kind, dt |-> Aware([day |-> 0, sec |-> 0], 0)]
Returned(dt) == [raises |-> "None", dt |-> dt]

\* datetime.now(USER_TZINFO) + relative_delta (bot.py:280)
plus_delta(user_now, delta) ==
  Norm(user_now.day + delta.days, user_now.sec + delta.secs)

\* the datetime the clock is then set on (bot.py:276-291, 309-310)
initial_dt(t, base, rel, user_now) ==
  IF rel.some THEN Aware(plus_delta(user_now, rel.delta), tz)
  ELSE IF base.datetime.found
  THEN IF base.datetime.dt.aware THEN base.datetime.dt
       ELSE replace_tzinfo(base.datetime.dt, tz)
  ELSE IF HasWord(t, "zavtra") THEN plus_days(user_now, 1)
  ELSE user_now

\* the clock set on dt (bot.py:312-338).  dt.replace raises ValueError for
\* an hour past 23 or a minute past 59.
set_clock(base, rel, m, dt) ==
  IF m.found
  THEN IF converted_hour(m.hour, m.tod) > 23 \/ m.minute > 59
       THEN Raised("ValueError")
       ELSE Returned(replace_time(dt, converted_hour(m.hour, m.tod), m.minute))
  ELSE IF ~rel.some
  THEN Returned(replace_time(dt, IF base.time_info = "None" THEN 10
                                 ELSE tod_hour(base.time_info), 0))
  ELSE IF base.time_info # "None"
          /\ (rel.delta.days > 0 \/ rel.delta.secs >= 12 * HOUR)
  THEN Returned(replace_time(dt, tod_hour(base.time_info), 0))
  ELSE Returned(dt)

\* parse_reminder_datetime (bot.py:206-338), from the lowered text t, what
\* date_parser.parse_text made of it, the relative delta and the user's now.
\* timedelta and datetime + timedelta raise OverflowError past their ranges.
resolve_reminder_datetime(t, base, rel, user_now) ==
  IF rel.some /\ (rel.delta.overflow
                  \/ plus_delta(user_now, rel.delta).day > MAXORD)
  THEN Raised("OverflowError")
  ELSE set_clock(base, rel, clock_clause(t),
                 initial_dt(t, base, rel, user_now))

parse_reminder_datetime(text, utcnow) ==
  resolve_reminder_datetime(lower(text).toks, parse_text(lower(text), utcnow),
                            extract_relative_delta(lower(text).toks),
                            now_in(utcnow, tz))

\* ------------------------------------------------- database.py: the tables
\* UNIQUE (user_id, name, type) on entities and UNIQUE (user_id, name) on
\* tags, the constraints of database_schema.sql that make INSERT OR IGNORE
\* ignore a repeated row
unique_conflict(table, row) == \E i \in DOMAIN table : table[i] = row
RowId(table, row) == CHOOSE i \in DOMAIN table : table[i] = row

\* add_entry (database.py:53-96): the row; its metadata holds the date that
\* parse_text found, if any
add_entry(es, user_id, original_text, source_type, utcnow) ==
  LET date_result == parse_text(original_text, utcnow)
  IN Append(es, [user_id       |-> user_id,
                 original_text |-> original_text,
                 source_type   |-> source_type,
                 parsed_date   |-> IF date_result.datetime.found
                                   THEN Stored(strftime(date_result.datetime.dt))
                                   ELSE NoDate])

\* variant: the name is stored as it was given
entity_row_raw(user_id, name, type) ==
  [user_id |-> user_id, name |-> name, type |-> type]

\* variant: a plain INSERT
add_entity_always_inserts(es, user_id, name, type) ==
  Append(es, [user_id |-> user_id, name |-> strip(lower(name)), type |-> type])

\* add_entity (database.py:139-169): INSERT OR IGNORE of the normalized row,
\* then the SELECT of its id
entity_row(user_id, name, type) ==
  [user_id |-> user_id, name |-> strip(lower(name)), type |-> type]
add_entity(es, user_id, name, type) ==
  IF unique_conflict(es, entity_row(user_id, name, type)) THEN es
  ELSE Append(es, entity_row(user_id, name, type))

\* add_tag (database.py:216-243)
tag_row(user_id, name) == [user_id |-> user_id, name |-> strip(lower(name))]
add_tag(ts, user_id, name) ==
  IF unique_conflict(ts, tag_row(user_id, name)) THEN ts
  ELSE Append(ts, tag_row(user_id, name))

\* variant: a repeated link is stored again, as another relation
link_entry_entity_again(links, entry_id, entity_id, relation_type) ==
  links \cup {[entry_id |-> entry_id, entity_id |-> entity_id,
               relation_type |->
                 IF \E l \in links : /\ l.entry_id = entry_id
                                     /\ l.entity_id = entity_id
                 THEN "again" ELSE relation_type]}

\* COUNT(ee.entry_id) of the LEFT JOIN of an entity with entry_entities,
\* grouped by the entity (smart_search.py:225-234)
mention_count(links, entity_id) ==
  Cardinality({l \in links : l.entity_id = entity_id})

\* link_entry_entity, link_entry_tag (database.py:171-186, 245-258)
link_entry_entity(links, entry_id, entity_id, relation_type) ==
  links \cup {[entry_id |-> entry_id, entity_id |-> entity_id,
               relation_type |-> relation_type]}
link_entry_tag(links, entry_id, tag_id) ==
  links \cup {[entry_id |-> entry_id, tag_id |-> tag_id]}

\* ------------------------------------------------------------ smart_search.py
\* word_normalization and reverse_normalization (smart_search.py:53-69), the
\* entries for the words of the modelled vocabulary
word_normalization ==
  [w \in {"vase", "vasyu", "vasi"} |-> "vasya"]
reverse_normalization ==
  [b \in {"vasya"} |->
     {b} \cup {w \in DOMAIN word_normalization : word_normalization[w] = b}]
Word(w) == Str(<<T(w)>>)

\* name LIKE '%form%' and name LIKE 'form%', word by word
Contains(name, form) ==
  \E i \in 0 .. Len(name.toks) - Len(form.toks) :
    \A j \in DOMAIN form.toks : name.toks[i + j] = form.toks[j]
StartsWith(name, form) ==
  /\ Len(form.toks) <= Len(name.toks)
  /\ \A j \in DOMAIN form.toks : name.toks[j] = form.toks[j]

\* search_forms of one keyword (smart_search.py:176-191)
search_forms(kw) ==
  {strip(lower(kw))}
    \cup (IF Len(kw.toks) = 1 /\ kw.toks[1].k \in DOMAIN word_normalization
          THEN {Word(word_normalization[kw.toks[1].k])} ELSE {})
    \cup (IF Len(kw.toks) = 1
          THEN {Word(w) : w \in UNION {reverse_normalization[b] :
                  b \in {x \in DOMAIN reverse_normalization :
                            kw.toks[1].k \in reverse_normalization[x]}}}
          ELSE {})

\* the words of a keyword of several words, each looked for on its own,
\* and their normalized forms (smart_search.py:208-217)
compound_forms(kw) ==
  IF Len(kw.toks) < 2 THEN {}
  ELSE {Word(kw.toks[i].k) : i \in DOMAIN kw.toks}
         \cup {Word(word_normalization[kw.toks[i].k]) :
                 i \in {x \in DOMAIN kw.toks :
                          kw.toks[x].k \in DOMAIN word_normalization}}

\* where_condition (smart_search.py:173-220): the OR over every keyword
where_condition(name, keywords) ==
  \E i \in DOMAIN keywords :
    \E f \in search_forms(keywords[i]) \cup compound_forms(keywords[i]) :
      name = f \/ StartsWith(name, f) \/ Contains(name, f)

\* match_priority (smart_search.py:226-230, 238-239): the CASE compares the
\* name with the first keyword alone
match_priority(name, keywords) ==
  IF name = strip(lower(keywords[1])) THEN 3
  ELSE IF StartsWith(name, strip(lower(keywords[1]))) THEN 2
  ELSE 1

\* the order of e.name: word by word in the order of Alphabet
Alphabet == <<"ivanov", "kot", "vase", "vasi", "vasya", "vasyu">>
Rank(w) == CHOOSE i \in DOMAIN Alphabet : Alphabet[i] = w
RECURSIVE NameLess(_, _, _)
NameLess(a, b, i) ==
  IF i > Len(b) THEN FALSE
  ELSE IF i > Len(a) THEN TRUE
  ELSE IF a[i].k # b[i].k THEN Rank(a[i].k) < Rank(b[i].k)
  ELSE NameLess(a, b, i + 1)

\* ORDER BY match_priority DESC, mention_count DESC, e.name
OrderedBefore(x, y) ==
  \/ x.match_priority > y.match_priority
  \/ /\ x.match_priority = y.match_priority
     /\ \/ x.mention_count > y.mention_count
        \/ /\ x.mention_count = y.mention_count
           /\ NameLess(x.name.toks, y.name.toks, 1)

\* variant: the SELECT without e.user_id = ?
found_entities_any_user(es, links, user_id, keywords, entity_type) ==
  {[id |-> k, name |-> es[k].name, type |-> es[k].type,
    mention_count |-> mention_count(links, k),
    match_priority |-> match_priority(es[k].name, keywords)] :
     k \in {x \in DOMAIN es :
              /\ entity_type \in {"None", es[x].type}
              /\ where_condition(es[x].name, keywords)}}

\* the rows of the SELECT (smart_search.py:222-256)
found_entities(es, links, user_id, keywords, entity_type) ==
  {[id |-> k, name |-> es[k].name, type |-> es[k].type,
    mention_count |-> mention_count(links, k),
    match_priority |-> match_priority(es[k].name, keywords)] :
     k \in {x \in DOMAIN es :
              /\ es[x].user_id = user_id
              /\ entity_type \in {"None", es[x].type}
              /\ where_condition(es[x].name, keywords)}}

\* search_entities (smart_search.py:164-265): the lists the query may
\* return, rows that the ORDER BY leaves tied coming in either order
search_entities(es, links, user_id, keywords, entity_type) ==
  {q \in Orderings(found_entities(es, links, user_id, keywords, entity_type)) :
     \A i, j \in DOMAIN q : OrderedBefore(q[i], q[j]) => i < j}

\* stop_words (smart_search.py:81-88) and the words of one or two letters,
\* as far as the modelled vocabulary has them
stop_words == {"chto", "rasskazhi", "pokazhi", "znaesh", "o", "pro"}
ShortWords == {"o", "i"}
normalized_word(w) ==
  IF w \in DOMAIN word_normalization THEN word_normalization[w] ELSE w

\* re.findall of the person pattern r'o\s+(\w+)' (smart_search.py:25-28):
\* the word after every word that ends in the letter "o", the scan going on
\* behind the word it took.  r'pro\s+(\w+)' and r'chto\s+znaesh\s+o\s+(\w+)'
\* match nothing this pattern does not, and no other pattern of
\* query_patterns matches a query of the modelled vocabulary.
EndsWithO == {"o", "pro", "chto"}
RECURSIVE person_matches(_, _)
person_matches(toks, i) ==
  IF i >= Len(toks) THEN {}
  ELSE IF toks[i].k \in EndsWithO
  THEN {toks[i + 1].k} \cup person_matches(toks, i + 2)
  ELSE person_matches(toks, i + 1)

\* parse_query (smart_search.py:89-143); no compound name is in the
\* vocabulary.  A word joins 'general' unless the word itself, as written,
\* is among the typed keywords, which hold normalized words.
parse_query(query) ==
  LET toks == strip(lower(query)).toks
      person == {normalized_word(w) :
                   w \in {x \in person_matches(toks, 1) :
                            x \notin ShortWords /\ x \notin stop_words}}
  IN [person  |-> person,
      general |-> {normalized_word(toks[i].k) :
                     i \in {x \in DOMAIN toks :
                              /\ toks[x].k \notin ShortWords
                              /\ toks[x].k \notin stop_words
                              /\ toks[x].k \notin person}}]

\* list(set(...)) (smart_search.py:139-141): the keywords in any order
KeywordLists(S) == {[i \in DOMAIN q |-> Word(q[i])] : q \in Orderings(S)}

\* ORDER BY e.created_at DESC LIMIT ?, for entries made at different seconds
Descending(S) ==
  CHOOSE q \in Orderings(S) : \A i, j \in DOMAIN q : i < j => q[i] > q[j]
Limit(q, n) == SubSeq(q, 1, IF Len(q) < n THEN Len(q) ELSE n)
entry_rows(ents, ids) ==
  [i \in DOMAIN ids |->
     [id |-> ids[i], original_text |-> ents[ids[i]].original_text]]

\* search_entries_by_entities (smart_search.py:267-298)
search_entries_by_entities(ents, links, user_id, entity_ids) ==
  IF entity_ids = {} THEN <<>>
  ELSE entry_rows(ents,
         Limit(Descending({e \in DOMAIN ents :
                 /\ ents[e].user_id = user_id
                 /\ \E l \in links : /\ l.entry_id = e
                                     /\ l.entity_id \in entity_ids}), 10))

\* search_entries_by_text (smart_search.py:300-333): original_text LIKE
\* '%kw%' for some keyword, on texts written in lower case
search_entries_by_text(ents, user_id, keywords) ==
  entry_rows(ents,
    Limit(Descending({e \in DOMAIN ents :
            /\ ents[e].user_id = user_id
            /\ \E kw \in keywords :
                 Contains(ents[e].original_text, strip(lower(Word(kw))))}),
          10))

\* get_related_entities (smart_search.py:363-385): the entities linked to an
\* entry the given one is linked to, most co-occurrences first, five at most
co_occurrence_count(links, entity_id, other) ==
  Cardinality({p \in links \X links :
                 /\ p[1].entity_id = entity_id
                 /\ p[2].entry_id = p[1].entry_id
                 /\ p[2].entity_id = other})
get_related_entities(es, links, user_id, entity_id) ==
  {Limit(q, 5) :
     q \in {o \in Orderings(
                    {[id |-> k, name |-> es[k].name,
                      co_occurrence_count |->
                        co_occurrence_count(links, entity_id, k)] :
                       k \in {x \in DOMAIN es :
                                /\ x # entity_id
                                /\ es[x].user_id = user_id
                                /\ co_occurrence_count(links, entity_id, x)
                                     > 0}}) :
              \A i, j \in DOMAIN o :
                o[i].co_occurrence_count > o[j].co_occurrence_count
                  => i < j}}

\* GROUP_CONCAT(DISTINCT ent.name) as entity_names, over the entities the
\* entry is joined to (smart_search.py:277-282, 313-317)
entity_names(es, links, entry_id) ==
  {es[l.entity_id].name : l \in {x \in links : x.entry_id = entry_id}}
named_rows(es, links, rows) ==
  [i \in DOMAIN rows |->
     [id |-> rows[i].id, original_text |-> rows[i].original_text,
      entity_names |-> entity_names(es, links, rows[i].id)]]

\* "remove the duplicates of the entities" (smart_search.py:472-479)
RECURSIVE unique_entities(_, _)
unique_entities(found, seen) ==
  IF found = <<>> THEN <<>>
  ELSE IF Head(found).id \in seen THEN unique_entities(Tail(found), seen)
  ELSE <<Head(found)>>
         \o unique_entities(Tail(found), seen \cup {Head(found).id})

\* the entries found by text that the entities had not brought
\* (smart_search.py:493-499)
new_entries(found, by_text) ==
  SelectSeq(by_text,
            LAMBDA e : \A i \in DOMAIN found : found[i].id # e.id)

SearchRaised(kind) ==
  [raises |-> kind, entities_found |-> <<>>, entries_found |-> <<>>,
   related_entities |-> <<>>, total_entries |-> 0]
search_results(ents, es, links, user_id, keywords, entities_found, related) ==
  [raises           |-> "None",
   entities_found   |-> entities_found,
   entries_found    |->
      search_entries_by_entities(ents, links, user_id,
           {entities_found[i].id : i \in DOMAIN entities_found})
        \o new_entries(
             search_entries_by_entities(ents, links, user_id,
               {entities_found[i].id : i \in DOMAIN entities_found}),
             search_entries_by_text(ents, user_id, keywords)),
   related_entities |-> related,
   total_entries    |->
      Len(search_entries_by_entities(ents, links, user_id,
            {entities_found[i].id : i \in DOMAIN entities_found}))
        + Len(new_entries(
             search_entries_by_entities(ents, links, user_id,
               {entities_found[i].id : i \in DOMAIN entities_found}),
             search_entries_by_text(ents, user_id, keywords)))]

\* the entities of one keyword group (smart_search.py:445-456): no search
\* for a group without keywords
group_entities(es, links, user_id, group, entity_type) ==
  IF group = {} THEN {<<>>}
  ELSE UNION {search_entities(es, links, user_id, kws, entity_type) :
                kws \in KeywordLists(group)}

\* search_comprehensive without an ai_parser (smart_search.py:423-520): the
\* results the search may return.  recent_entries, which only the response
\* generator reads, is left out.
search_by_rules(ents, es, links, user_id, parsed) ==
  UNION {
    {search_results(ents, es, links, user_id,
                    parsed.person \cup parsed.general, found, related) :
       related \in IF found = <<>> THEN {<<>>}
                   ELSE get_related_entities(es, links, user_id,
                                             found[1].id)} :
    found \in {unique_entities(p \o g, {}) :
                 p \in group_entities(es, links, user_id, parsed.person,
                                      "person"),
                 g \in group_entities(es, links, user_id, parsed.general,
                                      "None")}}

\* search_comprehensive (smart_search.py:415-520).  With an ai_parser,
\* parse_query and extract_search_terms return whatever the completion call
\* did (ai_query_parser.py:118-152 catches its errors), and line 421 then
\* calls is_analytical_query, a method that AIQueryParser does not define:
\* the AttributeError leaves search_comprehensive.
search_comprehensive(configured, ents, es, links, user_id, query) ==
  IF configured THEN {SearchRaised("AttributeError")}
  ELSE search_by_rules(ents, es, links, user_id, parse_query(query))

\* ------------------------------------------------------------ smart_tell.py
\* a reply is the list of its parts; a part is a template, the number of the
\* alternative chosen for it and the words put into it
Part(part, n, words) == [part |-> part, n |-> n, words |-> words]
Alternatives == 1 .. 3

\* _extract_topic (smart_tell.py:146-155)
topic_stop_words == {"rasskazhi", "o", "pro", "chto", "znaesh", "pokazhi"}
extract_topic(query) ==
  Limit(SelectSeq(lower(query).toks,
                  LAMBDA t : t.k \notin topic_stop_words
                               /\ t.k \notin ShortWords), 3)
TopicWords(query) ==
  IF extract_topic(query) = <<>> THEN <<>> ELSE <<Str(extract_topic(query))>>

\* the characters of a text: the letters of its words, counted on their
\* transliteration, and one space between two words.  A token "chars" is a
\* run of a characters, which is also what is left of a word cut short.
Chars(n) == [k |-> "chars", a |-> n, b |-> 0, c |-> 0]
Ellipsis == T("...")
WordLen(t) == IF t.k = "chars" THEN t.a ELSE Len(t.k)
RECURSIVE CharLen(_)
CharLen(toks) ==
  IF toks = <<>> THEN 0
  ELSE WordLen(Head(toks))
         + (IF Len(toks) > 1 THEN 1 + CharLen(Tail(toks)) ELSE 0)
\* text[:n]
RECURSIVE FirstChars(_, _)
FirstChars(toks, n) ==
  IF toks = <<>> \/ n <= 0 THEN <<>>
  ELSE IF WordLen(Head(toks)) <= n
  THEN <<Head(toks)>> \o FirstChars(Tail(toks), n - WordLen(Head(toks)) - 1)
  ELSE <<Chars(n)>>

\* variant: the text is listed whole
cut_text_whole(text, limit) == text

\* text[:limit] + "..." if len(text) > limit else text (smart_tell.py:119-121,
\* ai_response_generator.py:383)
cut_text(text, limit) ==
  IF CharLen(text.toks) > limit
  THEN [text EXCEPT !.toks = FirstChars(@, limit) \o <<Ellipsis>>]
  ELSE text

\* _generate_no_data_response (smart_tell.py:71-94): random.choice takes one
\* of three templates and one of three suggestions
generate_no_data_response(query, template, suggestion) ==
  <<Part("no_data", template, TopicWords(query)),
    Part("no_data_suggestion", suggestion, <<>>)>>

\* _generate_simple_data_response (smart_tell.py:96-144): random.choice
\* takes the header when the query has no topic, and the suggestion
generate_simple_data_response(query, results, header, suggestion) ==
  <<IF extract_topic(query) = <<>> THEN Part("found_data", header, <<>>)
    ELSE Part("found_data_topic", 0, TopicWords(query))>>
  \o (IF results.entities_found = <<>> THEN <<>>
      ELSE <<Part("entities", 0,
                  [i \in DOMAIN Limit(results.entities_found, 3) |->
                     results.entities_found[i].name])>>)
  \o (IF results.entries_found = <<>> THEN <<>>
      ELSE <<Part("entries", 0,
                  [i \in DOMAIN Limit(results.entries_found, 3) |->
                     cut_text(results.entries_found[i].original_text, 80)])>>)
  \o (IF results.related_entities = <<>> THEN <<>>
      ELSE <<Part("related", 0,
                  [i \in DOMAIN Limit(results.related_entities, 2) |->
                     results.related_entities[i].name])>>)
  \o (IF results.total_entries > 3
      THEN <<Part("total", results.total_entries, <<>>)>> ELSE <<>>)
  \o <<Part("found_suggestion", suggestion, <<>>)>>

\* variant: entries alone do not count as data
has_data_entities_only(results) == Len(results.entities_found) > 0

\* has_data (smart_tell.py:45-47)
has_data(results) ==
  Len(results.entities_found) > 0 \/ Len(results.entries_found) > 0

\* process_tell_request (smart_tell.py:36-69).  choice holds what
\* random.choice picks and what the response generator does: "formatted"
\* when generate_response and format_final_response return, "raised" when
\* one of them raises.
apology == <<Part("error", 0, <<>>)>>
process_tell_request(configured, results, query, choice) ==
  IF results.raises # "None" THEN apology
  ELSE IF ~has_data(results)
  THEN generate_no_data_response(query, choice.template, choice.suggestion)
  ELSE IF configured /\ choice.ai = "formatted"
  THEN <<Part("ai_response", 0, <<>>)>>
  ELSE generate_simple_data_response(query, results, choice.header,
                                     choice.suggestion)

\* ------------------------------------------------- ai_response_generator.py
\* _extract_topic_from_query (ai_response_generator.py:141-150): the query
\* itself when it holds no topic word
extract_topic_from_query(query) ==
  IF extract_topic(query) = <<>> THEN query ELSE Str(extract_topic(query))

\* _fallback_response (ai_response_generator.py:367-396), the response text
fallback_response(query, results) ==
  IF has_data(results)
  THEN <<Part("found_data_topic", 0, <<extract_topic_from_query(query)>>)>>
       \o (IF results.entities_found = <<>> THEN <<>>
           ELSE <<Part("entities", 0,
                       [i \in DOMAIN Limit(results.entities_found, 3) |->
                          results.entities_found[i].name])>>)
       \o (IF results.entries_found = <<>> THEN <<>>
           ELSE <<Part("entries", 0,
                       [i \in DOMAIN Limit(results.entries_found, 2) |->
                          cut_text(results.entries_found[i].original_text,
                                   100)])>>)
  ELSE <<Part("no_data", 0, <<extract_topic_from_query(query)>>)>>

\* A generated response text is the list of the pieces that split('.')
\* makes of it, each piece the list of its words; a word is written with a
\* capital first letter or in lower case.  The empty text is one empty
\* piece, and a text that ends with a full stop has an empty last piece.
\* Spaces are not kept, so strip() changes nothing that is modelled.
Lower(w) == [w |-> w, cap |-> FALSE]
Capital(w) == [w |-> w, cap |-> TRUE]
EmptyText == <<<<>>>>

\* unwanted_phrases (ai_response_generator.py:412-421)
unwanted_phrases ==
  <<<<Capital("eta"), Lower("informatsiya"), Lower("sokhranena"), Lower("v"),
      Lower("sisteme")>>,
    <<Capital("rekomenduyu"), Lower("otslezhivat"), Lower("dinamiku")>>,
    <<Capital("rekomenduyu"), Lower("prodolzhit"), Lower("monitoring")>>,
    <<Capital("sovetuyu"), Lower("obratit"), Lower("vnimanie")>>,
    <<Capital("rekomenduyu")>>,
    <<Capital("sovetuyu")>>,
    <<Capital("stoit")>>,
    <<Capital("zhelatelno")>>>>

\* phrase in piece, as written; phrase.lower() in piece.lower()
InPiece(piece, phrase, as_written) ==
  \E i \in 1 .. Len(piece) - Len(phrase) + 1 :
    \A j \in DOMAIN phrase :
      /\ piece[i + j - 1].w = phrase[j].w
      /\ as_written => piece[i + j - 1].cap = phrase[j].cap
\* phrase in response (line 424): no phrase holds a full stop
InResponse(response, phrase) ==
  \E i \in DOMAIN response : InPiece(response[i], phrase, TRUE)

\* '.'.join(cleaned_sentences).strip(), then the full stop that is added
\* to a text that is not empty and does not end with one
\* (ai_response_generator.py:431-434)
joined(pieces) == IF pieces = <<>> THEN EmptyText ELSE pieces
ends_with_stop(text) == Len(text) > 1 /\ text[Len(text)] = <<>>
stopped(text) ==
  IF text # EmptyText /\ ~ends_with_stop(text) THEN Append(text, <<>>)
  ELSE text

\* for phrase in unwanted_phrases (ai_response_generator.py:423-434)
RECURSIVE without_unwanted(_, _)
without_unwanted(response, p) ==
  IF p > Len(unwanted_phrases) THEN response
  ELSE without_unwanted(
         IF InResponse(response, unwanted_phrases[p])
         THEN stopped(joined(SelectSeq(response,
                LAMBDA piece : ~InPiece(piece, unwanted_phrases[p], FALSE))))
         ELSE response,
         p + 1)

\* format_final_response (ai_response_generator.py:398-436)
format_final_response(ai_response) ==
  without_unwanted(
    IF ai_response.tone = "informative"
    THEN [ai_response.response EXCEPT ![1] = <<Lower("(chart)")>> \o @]
    ELSE ai_response.response,
    1)

\* ---------------------------------------------------------- ai_categorizer.py
\* _fallback_categorization (ai_categorizer.py:198-208)
fallback_categorization ==
  [keys |-> {"categories", "entities", "tags", "temporal_info", "reminders",
             "confidence", "fallback"},
   entities |-> <<>>, tags |-> <<Str(<<T("#nerazobrannoe")>>)>>,
   reminders |-> <<>>]

\* _validate_result (ai_categorizer.py:178-196)
validate_result(result) ==
  [keys      |-> result.keys \cup {"entities", "tags", "categories",
                                   "confidence"},
   entities  |-> IF "entities" \in result.keys
                 THEN [i \in DOMAIN result.entities |->
                        [result.entities[i] EXCEPT
                           !.keys = @ \cup {"context", "confidence"}]]
                 ELSE <<>>,
   tags      |-> IF "tags" \in result.keys THEN result.tags ELSE <<>>,
   reminders |-> result.reminders]

\* AICategorizer.categorize_text (ai_categorizer.py:142-176): outcome is what
\* the completion call did: "ok" with the parsed JSON object, "bad_json" for
\* a reply json.loads rejects, "error" for a failed call.  Both failures are
\* caught inside and answered with the fallback structure.
ai_categorize_text(outcome) ==
  IF outcome.kind = "ok" THEN validate_result(outcome.result)
  ELSE fallback_categorization

\* ------------------------------------------------------------- the handlers

DB == [entries |-> entries, entities |-> entities, tags |-> tags,
       entry_entities |-> entry_entities, entry_tags |-> entry_tags,
       reminders |-> reminders, jobs |-> jobs]

\* the categorization result a save works with (bot.py:475-488).  The
\* except branch of the handler is unreachable: ai_categorizer.categorize_text
\* catches every exception itself.  tag_order is the order in which
\* list(set) happens to list the rule-based tags.
categorization_result(text, ai_outcome, tag_order) ==
  IF deepseek THEN ai_categorize_text(ai_outcome)
  ELSE [categorize_text(text) EXCEPT !.tags = tag_order]

\* for entity_data in categorization_result["entities"] (bot.py:490-504)
RECURSIVE save_entities(_, _, _, _, _)
save_entities(d, entry_id, user_id, ents, i) ==
  IF i > Len(ents) THEN [db |-> d, raised |-> FALSE]
  ELSE IF ~({"name", "type", "confidence"} \subseteq ents[i].keys)
  THEN [db |-> d, raised |-> TRUE]
  ELSE LET es == add_entity(d.entities, user_id, ents[i].name, ents[i].type)
           id == RowId(es, entity_row(user_id, ents[i].name, ents[i].type))
       IN save_entities(
            [d EXCEPT !.entities = es,
                      !.entry_entities =
                         link_entry_entity(@, entry_id, id, "mentioned")],
            entry_id, user_id, ents, i + 1)

\* for tag_name in categorization_result["tags"] (bot.py:506-509)
RECURSIVE save_tags(_, _, _, _, _)
save_tags(d, entry_id, user_id, tagl, i) ==
  IF i > Len(tagl) THEN d
  ELSE LET ts == add_tag(d.tags, user_id, tagl[i])
           id == RowId(ts, tag_row(user_id, tagl[i]))
       IN save_tags([d EXCEPT !.tags = ts,
                              !.entry_tags = link_entry_tag(@, entry_id, id)],
                    entry_id, user_id, tagl, i + 1)

\* for reminder_data in categorization_result["reminders"] (bot.py:511-536)
RECURSIVE save_reminders(_, _, _, _, _, _)
RECURSIVE save_reminder(_, _, _, _, _, _, _)
save_reminder(d, entry_id, user_id, text, rems, i, trigger) ==
  IF trigger.raises # "None" \/ "text" \notin rems[i].keys
  THEN [db |-> d, raised |-> TRUE]
  ELSE save_reminders(
         [d EXCEPT
            !.reminders = add_reminder(@, user_id, rems[i].text, trigger.dt,
                                       entry_id),
            !.jobs = schedule_reminder(job_queue, @,
                       [id |-> Len(d.reminders) + 1, user_id |-> user_id,
                        text |-> rems[i].text, trigger_date |-> trigger.dt],
                       now)],
         entry_id, user_id, text, rems, i + 1)

save_reminders(d, entry_id, user_id, text, rems, i) ==
  IF i > Len(rems) THEN [db |-> d, raised |-> FALSE]
  ELSE save_reminder(d, entry_id, user_id, text, rems, i,
                     parse_reminder_datetime(text, now))

\* process_text_entry (bot.py:461-554) and the save branch of handle_audio
\* (bot.py:655-747), which repeats it with source_type 'voice'.  An exception
\* leaves what was committed before it and makes the reply the error text.
reminders_saved(r) ==
  [db |-> r.db, reply |-> IF r.raised THEN "error" ELSE "saved"]

tags_saved(d, entry_id, user_id, text, cat) ==
  IF "reminders" \notin cat.keys THEN [db |-> d, reply |-> "error"]
  ELSE reminders_saved(
         save_reminders(d, entry_id, user_id, text, cat.reminders, 1))

entities_saved(e, entry_id, user_id, text, cat) ==
  IF e.raised THEN [db |-> e.db, reply |-> "error"]
  ELSE tags_saved(save_tags(e.db, entry_id, user_id, cat.tags, 1),
                  entry_id, user_id, text, cat)

entry_saved(d, user_id, text, cat) ==
  entities_saved(save_entities(d, Len(d.entries), user_id, cat.entities, 1),
                 Len(d.entries), user_id, text, cat)

process_text_entry(user_id, text, source_type, cat) ==
  entry_saved([DB EXCEPT !.entries =
                  add_entry(@, user_id, text, source_type, now)],
              user_id, text, cat)

\* IntentClassifier.classify_intent (intent_classifier.py): outcome is the
\* intent the classification service named, or "fail" when its call failed,
\* which the classifier answers with SAVE_INFO and the original text
classify_intent(outcome) == IF outcome = "fail" THEN "SAVE_INFO" ELSE outcome

\* variant: without a classifier every message is a search
intent_of_unconfigured_search(intent_outcome) ==
  IF deepseek THEN classify_intent(intent_outcome) ELSE "SEARCH_INFO"

\* bot.py:399-403 and 591-595: without a classifier every message is a save
intent_of(intent_outcome) ==
  IF deepseek THEN classify_intent(intent_outcome) ELSE "SAVE_INFO"

\* the reply of the branches that only read (bot.py:408-451, 600-653)
reply_of(intent) ==
  CASE intent = "SEARCH_INFO"    -> "search"
    [] intent = "SHOW_STATS"     -> "stats"
    [] intent = "SHOW_INSIGHTS"  -> "insights"
    [] intent = "SHOW_REMINDERS" -> "reminders"
    [] intent = "GREETING"       -> "greeting"

ReadOnlyIntents ==
  {"SEARCH_INFO", "SHOW_STATS", "SHOW_INSIGHTS", "SHOW_REMINDERS", "GREETING"}

Handled(user_id, text, source_type, intent_outcome, intent, ai_kind) ==
  [handled |-> TRUE, user_id |-> user_id, text |-> text,
   source_type |-> source_type, intent_outcome |-> intent_outcome,
   intent |-> intent, ai |-> ai_kind]

\* the tables and the job queue after a save
commit(saved) ==
  /\ entries' = saved.db.entries
  /\ entities' = saved.db.entities
  /\ tags' = saved.db.tags
  /\ entry_entities' = saved.db.entry_entities
  /\ entry_tags' = saved.db.entry_tags
  /\ reminders' = saved.db.reminders
  /\ jobs' = saved.db.jobs
  /\ reply' = <<saved.reply>>

\* variant: every intent, the read-only ones included, takes the save branch
dispatch_saves_greeting(user_id, text, source_type, intent_outcome, ai_outcome, tag_order) ==
  /\ msg' = Handled(user_id, text, source_type, intent_outcome,
                    intent_of(intent_outcome), ai_outcome.kind)
  /\ commit(process_text_entry(user_id, text, source_type,
              categorization_result(text, ai_outcome, tag_order)))

\* the body of the try of handle_text (bot.py:395-459) and of handle_audio
\* (bot.py:587-753), which differ in source_type alone.  The release
\* announcements sent first write only the user_versions table.
dispatch(user_id, text, source_type, intent_outcome, ai_outcome, tag_order) ==
  IF intent_of(intent_outcome) \in ReadOnlyIntents
  THEN /\ msg' = Handled(user_id, text, source_type, intent_outcome,
                         intent_of(intent_outcome), "None")
       /\ reply' = <<reply_of(intent_of(intent_outcome))>>
       /\ UNCHANGED <<tables, jobs>>
  ELSE /\ msg' = Handled(user_id, text, source_type, intent_outcome,
                         intent_of(intent_outcome), ai_outcome.kind)
       /\ commit(process_text_entry(user_id, text, source_type,
                   categorization_result(text, ai_outcome, tag_order)))

\* ------------------------------------------------------------ what arrives
W == T("w")
Texts ==
  {Str(<<T("napomni"), W, T("cherez"), T("chas")>>),
   Str(<<T("napomni"), W, T("v"), Num(13)>>),
   Str(<<T("napomni"), W, T("v"), T("pyatnitsu")>>)}

IntentOutcomes ==
  {"SAVE_INFO", "SEARCH_INFO", "SHOW_STATS", "SHOW_INSIGHTS",
   "SHOW_REMINDERS", "GREETING", "UNKNOWN", "fail"}

\* a JSON object of the completion service: its keys and the values of those
\* the handlers read
AIResult ==
  [keys      |-> {"categories", "entities", "tags", "reminders", "confidence"},
   entities  |-> <<[keys |-> {"name", "type", "confidence"},
                    name |-> [toks |-> <<W>>, cased |-> TRUE, padded |-> FALSE],
                    type |-> "person"]>>,
   tags      |-> <<Str(<<T("#lyudi")>>)>>,
   reminders |-> <<[text |-> Str(<<W>>), keys |-> {"text"}]>>]
NoResult ==
  [keys |-> {}, entities |-> <<>>, tags |-> <<>>, reminders |-> <<>>]
\* JSON objects that leave out what the prompt asks for: no "reminders"
\* key, an entity without "name", an entity without "type"
AIWithoutReminders ==
  [AIResult EXCEPT !.keys = @ \ {"reminders"}, !.reminders = <<>>]
AINamelessEntity ==
  [AIResult EXCEPT !.entities[1].keys = @ \ {"name"}]
AITypelessEntity ==
  [AIResult EXCEPT !.entities[1].keys = @ \ {"type"}]
AIOutcomes ==
  {[kind |-> "ok", result |-> r] :
     r \in {AIResult, AIWithoutReminders, AINamelessEntity,
             AITypelessEntity}}
    \cup {[kind |-> "bad_json", result |-> NoResult],
          [kind |-> "error", result |-> NoResult]}
Unconfigured == [kind |-> "unconfigured", result |-> NoResult]

\* what the collaborators of one update may do, given the configuration
Collaborators(text) ==
  IF deepseek
  THEN {[intent |-> i, ai |-> a, tag_order |-> <<>>] :
          i \in IntentOutcomes, a \in AIOutcomes}
  ELSE {[intent |-> "unconfigured", ai |-> Unconfigured, tag_order |-> o] :
          o \in Orderings(categorize_text(text).tags)}

\* ------------------------------------------------------------------ actions
\* postprocess_transcript (bot.py:116-140): a transcript that opens with a
\* question word gets its question mark back
QuestionWords == {"kto", "chto", "gde", "kogda", "kak", "pochemu", "skolko"}
postprocess_transcript(transcript) ==
  IF transcript.toks = <<>> THEN transcript
  ELSE IF /\ transcript.toks[1].k \in QuestionWords
          /\ transcript.toks[Len(transcript.toks)].k # "?"
  THEN [strip(transcript) EXCEPT !.toks = Append(@, T("?"))]
  ELSE transcript

\* versioning.py: _version_tuple (16-31), RELEASES (40-55), CURRENT_VERSION
\* (58), get_pending_releases (61-74); tuples compare as Python's do
version_tuple(value) ==
  CASE value = "None"         -> <<>>
    [] value = "2025.11.07.0" -> <<2025, 11, 7, 0>>
RECURSIVE TupleGreater(_, _)
TupleGreater(a, b) ==
  IF a = <<>> THEN FALSE
  ELSE IF b = <<>> THEN TRUE
  ELSE IF Head(a) # Head(b) THEN Head(a) > Head(b)
  ELSE TupleGreater(Tail(a), Tail(b))
RELEASES == <<[version |-> "2025.11.07.0", is_active |-> TRUE]>>
CURRENT_VERSION == RELEASES[Len(RELEASES)].version
IsPending(release, seen_tuple) ==
  release.is_active /\ TupleGreater(version_tuple(release.version), seen_tuple)
get_pending_releases(last_seen_version) ==
  SelectSeq(RELEASES,
            LAMBDA r : IsPending(r, version_tuple(last_seen_version)))

\* update_user_last_seen_version (database.py:473-492)
update_user_last_seen_version(uv, user_id, version) ==
  [uv EXCEPT ![user_id] = version]

\* send_release_announcements under ensure_release_announcements
\* (bot.py:161-184): outcome is "ok", "send_fail" when a send raises,
\* "update_fail" when the version write raises; the wrapper logs either
pending_sent(uv, user_id, pending, outcome) ==
  IF pending = <<>>
  THEN IF uv[user_id] # CURRENT_VERSION /\ outcome = "ok"
       THEN update_user_last_seen_version(uv, user_id, CURRENT_VERSION)
       ELSE uv
  ELSE IF outcome = "ok"
  THEN update_user_last_seen_version(uv, user_id,
                                     pending[Len(pending)].version)
  ELSE uv
send_release_announcements(uv, user_id, outcome) ==
  pending_sent(uv, user_id, get_pending_releases(uv[user_id]), outcome)
ensure_release_announcements(uv, user_id, outcome) ==
  send_release_announcements(uv, user_id, outcome)

AnnounceOutcomes == {"ok", "send_fail", "update_fail"}
\* the outcomes that can differ for this user now
OutcomesFor(user_id) ==
  IF user_versions[user_id] = CURRENT_VERSION THEN {"ok"} ELSE AnnounceOutcomes

\* get_known_user_ids (database.py:494-515)
get_known_user_ids ==
  {entries[i].user_id : i \in DOMAIN entries}
    \cup {reminders[i].user_id : i \in DOMAIN reminders}
    \cup {u \in DOMAIN user_versions : user_versions[u] # "None"}

NoMessage ==
  [handled |-> FALSE, user_id |-> 0, text |-> Str(<<>>), source_type |-> "None",
   intent_outcome |-> "None", intent |-> "None", ai |-> "None"]
Unhandled(user_id, source_type) ==
  [NoMessage EXCEPT !.user_id = user_id, !.source_type = source_type]

\* start (bot.py:772-794)
start ==
  /\ pc = "running"
  /\ Len(entries) < MaxEntries
  /\ \E u \in Users, a \in AnnounceOutcomes :
       /\ a \in OutcomesFor(u)
       /\ msg' = Unhandled(u, "command")
       /\ reply' = <<"welcome">>
       /\ user_versions' = ensure_release_announcements(user_versions, u, a)
  /\ UNCHANGED <<now, config, pc, epoch, job_queue, tables, jobs, outbox,
                 resolved, library>>

\* handle_text (bot.py:387-459)
handle_text ==
  /\ pc = "running"
  /\ Len(entries) < MaxEntries
  /\ \E u \in Users, text \in Texts, a \in AnnounceOutcomes :
       /\ a \in OutcomesFor(u)
       /\ user_versions' = ensure_release_announcements(user_versions, u, a)
       /\ \E c \in Collaborators(text) :
            dispatch(u, strip(text), "text", c.intent, c.ai, c.tag_order)
  /\ UNCHANGED <<now, config, pc, epoch, job_queue, outbox, resolved, library>>

\* handle_audio (bot.py:556-770): transcription is what the Whisper call
\* did; without a client or on any of its errors the handler only replies
Transcriptions == {"ok", "no_client", "connection", "rate_limit", "status",
                   "unknown"}
handle_audio ==
  /\ pc = "running"
  /\ Len(entries) < MaxEntries
  /\ \E u \in Users, tr \in Transcriptions :
       IF tr = "ok"
       THEN \E text \in Texts, a \in AnnounceOutcomes :
              /\ a \in OutcomesFor(u)
              /\ user_versions' =
                   ensure_release_announcements(user_versions, u, a)
              /\ \E c \in Collaborators(text) :
                   dispatch(u, postprocess_transcript(strip(text)), "voice",
                            c.intent, c.ai, c.tag_order)
       ELSE /\ msg' = Unhandled(u, "voice")
            /\ reply' = <<"whisper_" \o tr>>
            /\ UNCHANGED <<tables, jobs, user_versions>>
  /\ UNCHANGED <<now, config, pc, epoch, job_queue, outbox, resolved, library>>

\* context.bot.send_message (bot.py:347): the transport records the attempt,
\* whom it was for, whether it went out, when, and in which run of the
\* process
send_message(box, job, ok) ==
  run_once(box, [reminder_id |-> job.name, to |-> job.user_id,
                 text |-> job.text, ok |-> ok, epoch |-> epoch, at |-> now])

\* variant: the status is written whether or not the send went out
send_reminder_job_marks_always(job, outcome) ==
  /\ outbox' = send_message(outbox, job, outcome # "send_fail")
  /\ reminders' = IF outcome # "mark_fail"
                  THEN mark_reminder_completed(reminders, job.name)
                  ELSE reminders

\* send_reminder_job (bot.py:340-350): outcome is "ok", "send_fail" when
\* bot.send_message raises, "mark_fail" when the status write raises after
\* the send went out
send_reminder_job(job, outcome) ==
  /\ outbox' = send_message(outbox, job, outcome # "send_fail")
  /\ reminders' = IF outcome = "ok"
                  THEN mark_reminder_completed(reminders, job.name)
                  ELSE reminders

\* the job queue runs a reminder job whose time has come; a run_once job
\* leaves the queue when it runs
fire ==
  /\ pc = "running"
  /\ \E job \in DOMAIN jobs :
       /\ job.name # 0
       /\ AtOrBefore(job.when, now)
       /\ \E outcome \in {"ok", "send_fail", "mark_fail"} :
            send_reminder_job(job, outcome)
       /\ jobs' = remove_job(jobs, job)
  /\ UNCHANGED <<now, config, pc, epoch, job_queue, entries, entities, tags,
                 entry_entities, entry_tags, user_versions, msg, reply,
                 resolved, library>>

\* broadcast_release_announcements (bot.py:187-203), the job main() queues
\* with when=0, named 0 here; outcomes says how each user's sends went
BroadcastJob(utcnow) ==
  [name |-> 0, user_id |-> 0, text |-> Str(<<>>), when |-> utcnow]
RECURSIVE announce_all(_, _, _)
announce_all(uv, user_ids, outcomes) ==
  IF user_ids = {} THEN uv
  ELSE announce_all(
         send_release_announcements(uv, Min(user_ids), outcomes[Min(user_ids)]),
         user_ids \ {Min(user_ids)}, outcomes)
broadcast_release_announcements ==
  /\ pc = "running"
  /\ \E job \in DOMAIN jobs :
       /\ job.name = 0
       /\ jobs' = remove_job(jobs, job)
  /\ \E outcomes \in [Users -> AnnounceOutcomes] :
       /\ \A u \in Users :
            outcomes[u] \in IF u \in get_known_user_ids THEN OutcomesFor(u)
                            ELSE {"ok"}
       /\ user_versions' =
            announce_all(user_versions, get_known_user_ids, outcomes)
  /\ UNCHANGED <<now, config, pc, epoch, job_queue, tables, outbox, msg,
                 reply, resolved, library>>

\* main (bot.py:796-830): the job queue may fail to initialise; then the
\* re-hydration of the future active reminders and the broadcast job
RECURSIVE reschedule(_, _, _)
reschedule(jq, js, ids) ==
  IF ids = {} THEN js
  ELSE reschedule(jq,
         schedule_reminder(jq, js,
           [id |-> Min(ids), user_id |-> reminders[Min(ids)].user_id,
            text |-> reminders[Min(ids)].text,
            trigger_date |-> fromisoformat(reminders[Min(ids)].trigger_date)],
           now),
         ids \ {Min(ids)})

main ==
  /\ pc = "down"
  /\ epoch <= MaxRestarts
  /\ \E jq \in BOOLEAN :
       /\ job_queue' = jq
       /\ jobs' = IF jq
                  THEN run_once(
                         reschedule(jq, EmptyJobs,
                           get_future_active_reminders(reminders, now)),
                         BroadcastJob(now))
                  ELSE EmptyJobs
  /\ pc' = "running"
  /\ epoch' = epoch + 1
  /\ UNCHANGED <<now, config, tables, user_versions, outbox, msg, reply,
                 resolved, library>>

\* the process stops; the job queue lives in its memory
crash ==
  /\ pc = "running"
  /\ pc' = "down"
  /\ jobs' = EmptyJobs
  /\ UNCHANGED <<now, config, epoch, job_queue, tables, user_versions, outbox,
                 msg, reply, resolved, library>>

StartInstant == [day |-> StartDay, sec |-> 12 * HOUR]
tick ==
  /\ Before(now, PlusSeconds(StartInstant, MaxHours * HOUR))
  /\ now' = PlusSeconds(now, HOUR)
  /\ UNCHANGED <<config, pc, epoch, job_queue, tables, user_versions, jobs,
                 outbox, msg, reply, resolved, library>>

NotResolved == Raised("None")

\* init_database (database.py:37-51) on a new file
EmptyDatabase ==
  /\ entries = <<>> /\ entities = <<>> /\ tags = <<>>
  /\ entry_entities = {} /\ entry_tags = {} /\ reminders = <<>>
  /\ user_versions = [u \in Users |-> "None"]

\* a fresh database and a process not yet started
Fresh ==
  /\ now = StartInstant
  /\ systz = 0
  /\ pc = "down"
  /\ epoch = 0
  /\ job_queue = FALSE
  /\ EmptyDatabase
  /\ jobs = EmptyJobs
  /\ outbox = EmptyJobs
  /\ msg = NoMessage
  /\ reply = <<>>
  /\ resolved = NotResolved
  /\ calls = <<>>
  /\ sessions = <<>>

\* The life of the reminders, for a deployment without DEEPSEEK_API_KEY in
\* every user zone: handling, firing, failures, restarts.
Init ==
  /\ Fresh
  /\ tz \in TzOffsets
  /\ deepseek = FALSE

Next ==
  \/ start
  \/ handle_text
  \/ handle_audio
  \/ fire
  \/ broadcast_release_announcements
  \/ main
  \/ crash
  \/ tick

Spec == Init /\ [][Next]_vars

\* The routing of one update, with and without DEEPSEEK_API_KEY, at one
\* instant of one run of the process.
InitRouter ==
  /\ Fresh
  /\ tz \in TzOffsets
  /\ deepseek \in BOOLEAN

NextRouter ==
  \/ start
  \/ handle_text
  \/ handle_audio
  \/ main

SpecRouter == InitRouter /\ [][NextRouter]_vars

\* parse_reminder_datetime as a function of the text, the clock and the
\* user zone
Remind(rest) == Str(<<T("napomni"), W>> \o rest)
ClockTexts ==
  {Remind(<<T("v"), Num(h)>>) : h \in {7, 13, 23, 24, 25, 99}}
    \cup {Remind(<<T("v"), Clock(h, m)>>) : h \in {7, 25}, m \in {30, 59, 60, 75}}
RelativeTexts ==
  {Remind(<<T("cherez"), Num(n), T(u)>>) :
     n \in {0, 20, 5000000, 1000000000}, u \in {"minut", "chasov", "dney"}}
\* "через N минут" followed by nothing or by a date word
DateWords ==
  {<<>>, <<T("zavtra")>>, <<T("v"), T("pyatnitsu")>>, <<T("vecherom")>>,
   <<Num(15), T("marta"), Num(2027)>>}
MinuteTexts ==
  {Remind(<<T("cherez"), Num(n), T("minut")>> \o d) :
     n \in {20, 720}, d \in DateWords}
\* "в H[:MM]" followed by nothing or by a qualifier of the 12-hour clock
QualifiedTexts ==
  {Remind(<<T("v"), c>> \o q) :
     c \in {Num(2), Num(11), Clock(8, 30), Num(12)},
     q \in {<<>>} \cup {<<T(x)>> : x \in Qualifiers}}
\* no clock clause and no "через": a day, named or not, and a time-of-day
\* word or none
DayWords ==
  {<<>>, <<T("zavtra")>>, <<T("v"), T("pyatnitsu")>>,
   <<Num(15), T("marta"), Num(2027)>>}
TimeOfDayWords == {"utrom", "dnem", "vecherom", "nochyu"}
WordTexts ==
  {Remind(d \o w) :
     d \in DayWords, w \in {<<>>} \cup {<<T(x)>> : x \in TimeOfDayWords}}
ParseTexts ==
  ClockTexts \cup RelativeTexts \cup MinuteTexts \cup QualifiedTexts
    \cup WordTexts
ParseInstants == {StartInstant, PlusSeconds(StartInstant, 11 * HOUR + 1800)}

InitParse ==
  /\ now \in ParseInstants
  /\ tz \in TzOffsets
  /\ systz \in TzOffsets
  /\ deepseek = FALSE
  /\ pc = "running"
  /\ epoch = 1
  /\ job_queue = TRUE
  /\ EmptyDatabase
  /\ jobs = EmptyJobs
  /\ outbox = EmptyJobs
  /\ msg \in {[NoMessage EXCEPT !.text = t] : t \in ParseTexts}
  /\ reply = <<>>
  /\ resolved = NotResolved
  /\ calls = <<>>
  /\ sessions = <<>>

parse ==
  /\ reply = <<>>
  /\ resolved' = parse_reminder_datetime(msg.text, now)
  /\ reply' = <<"parsed">>
  /\ UNCHANGED <<now, config, pc, epoch, job_queue, tables, user_versions,
                 jobs, outbox, msg, library>>

NextParse == parse

SpecParse == InitParse /\ [][NextParse]_vars

\* SmartDateParser.parse_text as a function of the text and the host's clock
WeekdayTexts(n) ==
  {Str(<<W, T(weekday_names[n].prep), T(weekday_names[n].acc)>>),
   Str(<<W, T(weekday_names[n].nom)>>)}
MonthWord(m) == CHOOSE k \in DOMAIN month_names : month_names[k] = m
AbsoluteTexts(y, m, d) ==
  {Str(<<W, Dotted(d, m, y)>>), Str(<<W, Dashed(y, m, d)>>)}
    \cup (IF m \in 1 .. 12
          THEN {Str(<<W, Num(d), T(MonthWord(m)), Num(y)>>)} ELSE {})
Dates == {<<2027, 3, 15>>, <<2028, 2, 29>>, <<2026, 12, 31>>, <<2027, 2, 30>>,
          <<2026, 13, 1>>}
DateTexts ==
  UNION {WeekdayTexts(n) : n \in DOMAIN weekday_names}
    \cup UNION {AbsoluteTexts(t[1], t[2], t[3]) : t \in Dates}
DateInstants ==
  {[day |-> StartDay + d, sec |-> sec] :
     d \in 0 .. 6, sec \in {1800, 12 * HOUR, 23 * HOUR + 1800}}

\* the bot is not running: the module under call is all that acts
Offline ==
  /\ pc = "down"
  /\ epoch = 0
  /\ job_queue = FALSE
  /\ jobs = EmptyJobs
  /\ outbox = EmptyJobs
  /\ msg = NoMessage
  /\ reply = <<>>
  /\ resolved = NotResolved
  /\ calls = <<>>

InitDate ==
  /\ Offline
  /\ sessions = <<>>
  /\ EmptyDatabase
  /\ tz = 0
  /\ deepseek = FALSE
  /\ now \in DateInstants
  /\ systz \in TzOffsets

parse_text_call ==
  /\ Len(calls) < MaxParses
  /\ \E t \in DateTexts :
       calls' = Append(calls, [op |-> "parse_text", text |-> t, at |-> now,
                               ret |-> parse_text(t, now)])
  /\ UNCHANGED <<now, config, pc, epoch, job_queue, tables, user_versions,
                 jobs, outbox, msg, reply, resolved, sessions>>

NextDate == parse_text_call

SpecDate == InitDate /\ [][NextDate]_vars

\* DatabaseManager under direct calls.  add_entity and add_tag are two
\* statements each, the INSERT OR IGNORE and the SELECT of the id, and two
\* callers may be inside them at once; the link functions are one statement.
Callers == {1, 2}
Vasya == Str(<<T("vasya")>>)
EntityNames ==
  {Vasya, [Vasya EXCEPT !.cased = TRUE], [Vasya EXCEPT !.padded = TRUE],
   Str(<<T("vasya"), T("ivanov")>>)}
EntityTypes == {"person", "place"}
Idle == [pc |-> "idle", op |-> "None", user_id |-> 0, name |-> Str(<<>>),
         type |-> "None", overlap |-> FALSE]
Active == {s \in Callers : sessions[s].pc # "idle"}

\* the row a caller is inserting or looking up
SessionRow(c) ==
  IF c.op = "add_entity" THEN entity_row(c.user_id, c.name, c.type)
  ELSE tag_row(c.user_id, c.name)
SameRow(c, d) == c.op = d.op /\ SessionRow(c) = SessionRow(d)

\* a caller enters add_entity or add_tag; overlap notes that another caller
\* is then inside a call for the same row
enter(s, op, user_id, name, type) ==
  /\ sessions[s].pc = "idle"
  /\ sessions' =
       [t \in Callers |->
          IF t = s
          THEN [pc |-> "insert", op |-> op, user_id |-> user_id,
                name |-> name, type |-> type,
                overlap |-> \E o \in Active :
                  SameRow(sessions[o], [op |-> op, user_id |-> user_id,
                                        name |-> name, type |-> type])]
          ELSE [sessions[t] EXCEPT !.overlap =
                  @ \/ (t \in Active /\
                        SameRow(sessions[t], [op |-> op, user_id |-> user_id,
                                              name |-> name, type |-> type]))]]
  /\ UNCHANGED <<now, config, pc, epoch, job_queue, tables, user_versions,
                 jobs, outbox, msg, reply, resolved, calls>>

call_add_entity ==
  /\ Len(calls) + Cardinality(Active) < MaxCalls
  /\ \E s \in Callers, u \in Users, n \in EntityNames, t \in EntityTypes :
       enter(s, "add_entity", u, n, t)

call_add_tag ==
  /\ Len(calls) + Cardinality(Active) < MaxCalls
  /\ \E s \in Callers, u \in Users, n \in EntityNames :
       enter(s, "add_tag", u, n, "None")

\* cursor.execute("INSERT OR IGNORE ...") of a caller (database.py:148-152,
\* 225-228)
insert_or_ignore ==
  \E s \in Callers :
    /\ sessions[s].pc = "insert"
    /\ IF sessions[s].op = "add_entity"
       THEN /\ entities' = add_entity(entities, sessions[s].user_id,
                                      sessions[s].name, sessions[s].type)
            /\ UNCHANGED tags
       ELSE /\ tags' = add_tag(tags, sessions[s].user_id, sessions[s].name)
            /\ UNCHANGED entities
    /\ sessions' = [sessions EXCEPT ![s].pc = "select"]
    /\ UNCHANGED <<now, config, pc, epoch, job_queue, entries, entry_entities,
                   entry_tags, reminders, user_versions, jobs, outbox, msg,
                   reply, resolved, calls>>

\* cursor.execute("SELECT id ...") and the return (database.py:155-166,
\* 231-240)
select_id ==
  \E s \in Callers :
    /\ sessions[s].pc = "select"
    /\ calls' = Append(calls,
         [op |-> sessions[s].op, caller |-> s,
          user_id |-> sessions[s].user_id, name |-> sessions[s].name,
          type |-> sessions[s].type, overlap |-> sessions[s].overlap,
          ret |-> RowId(IF sessions[s].op = "add_entity" THEN entities
                        ELSE tags, SessionRow(sessions[s]))])
    /\ sessions' = [sessions EXCEPT ![s] = Idle]
    /\ UNCHANGED <<now, config, pc, epoch, job_queue, tables, user_versions,
                   jobs, outbox, msg, reply, resolved>>

\* link_entry_entity and link_entry_tag as the handlers call them: the ids
\* are ids add_entity and add_tag returned, the relation is 'mentioned'
EntryIds == {1, 2}
link_entry_entity_call ==
  /\ Len(calls) + Cardinality(Active) < MaxCalls
  /\ \E e \in EntryIds, id \in DOMAIN entities :
       /\ entry_entities' = link_entry_entity(entry_entities, e, id, "mentioned")
       /\ calls' = Append(calls, [op |-> "link_entry_entity", entry_id |-> e,
                                  id |-> id])
  /\ UNCHANGED <<now, config, pc, epoch, job_queue, entries, entities, tags,
                 entry_tags, reminders, user_versions, jobs, outbox, msg,
                 reply, resolved, sessions>>

link_entry_tag_call ==
  /\ Len(calls) + Cardinality(Active) < MaxCalls
  /\ \E e \in EntryIds, id \in DOMAIN tags :
       /\ entry_tags' = link_entry_tag(entry_tags, e, id)
       /\ calls' = Append(calls, [op |-> "link_entry_tag", entry_id |-> e,
                                  id |-> id])
  /\ UNCHANGED <<now, config, pc, epoch, job_queue, entries, entities, tags,
                 entry_entities, reminders, user_versions, jobs, outbox, msg,
                 reply, resolved, sessions>>

InitDB ==
  /\ Offline
  /\ EmptyDatabase
  /\ sessions = [s \in Callers |-> Idle]
  /\ now = StartInstant
  /\ tz = 0
  /\ systz = 0
  /\ deepseek = FALSE

NextDB ==
  \/ call_add_entity
  \/ call_add_tag
  \/ insert_or_ignore
  \/ select_id
  \/ link_entry_entity_call
  \/ link_entry_tag_call

SpecDB == InitDB /\ [][NextDB]_vars

\* SmartSearchEngine and SmartTellEngine under direct calls, over a database
\* that earlier runs of the bot filled: the notes of user 1, each saved as
\* process_text_entry saves it, with the entities its categorization named
\* (none under the rule-based fallback).  The key of the completion service
\* may have been set or removed since.
VasyaIvanov == Str(<<T("vasya"), T("ivanov")>>)
Person(name) ==
  [name |-> name, type |-> "person", keys |-> {"name", "type", "confidence"}]
Note(text, ents) == [text |-> text, entities |-> ents]
Notes ==
  {Note(Str(<<T("vasya"), T("kupil"), T("kota")>>), <<>>),
   Note(Str(<<T("vasya"), T("kupil"), T("kota")>>), <<Person(Vasya)>>),
   Note(Str(<<T("vasya"), T("ivanov"), T("zvonil")>>),
        <<Person(VasyaIvanov)>>),
   Note(Str(<<T("vasya"), T("zvonil"), T("vasya"), T("ivanov")>>),
        <<Person(Vasya), Person(VasyaIvanov)>>)}
NoteLists == UNION {[1 .. n -> Notes] : n \in 0 .. MaxNotes}

RECURSIVE saved(_, _, _)
saved(d, notes, i) ==
  IF i > Len(notes) THEN d
  ELSE saved(save_entities(
               [d EXCEPT !.entries = add_entry(@, 1, notes[i].text, "text",
                                               StartInstant)],
               Len(d.entries) + 1, 1, notes[i].entities, 1).db,
             notes, i + 1)

Queries ==
  {Str(<<T("rasskazhi"), T("o"), T("vase")>>),
   Str(<<T("chto"), T("znaesh"), T("o"), T("vase")>>),
   Str(<<T("rasskazhi"), T("pro"), T("kota")>>),
   Str(<<T("rasskazhi"), T("o"), T("pogode")>>),
   Str(<<T("rasskazhi")>>)}
SearchKeywords ==
  {<<Vasya>>, <<Word("vase")>>, <<Word("ivanov")>>,
   <<Vasya, Word("ivanov")>>, <<Word("ivanov"), Vasya>>}
Choices ==
  [template : Alternatives, suggestion : Alternatives, header : Alternatives,
   ai : {"formatted", "raised"}]

InitSearch ==
  /\ Offline
  /\ sessions = <<>>
  /\ now = StartInstant
  /\ tz = 0
  /\ systz = 0
  /\ deepseek \in BOOLEAN
  /\ tags = <<>> /\ entry_tags = {} /\ reminders = <<>>
  /\ user_versions = [u \in Users |-> "None"]
  /\ \E notes \in NoteLists :
       /\ entries = saved([entries |-> <<>>, entities |-> <<>>,
                           entry_entities |-> {}], notes, 1).entries
       /\ entities = saved([entries |-> <<>>, entities |-> <<>>,
                            entry_entities |-> {}], notes, 1).entities
       /\ entry_entities =
            saved([entries |-> <<>>, entities |-> <<>>,
                   entry_entities |-> {}], notes, 1).entry_entities

search_entities_call ==
  /\ Len(calls) < MaxSearches
  /\ \E kws \in SearchKeywords, ty \in {"None", "person"} :
       \E r \in search_entities(entities, entry_entities, 1, kws, ty) :
         calls' = Append(calls, [op |-> "search_entities", keywords |-> kws,
                                 entity_type |-> ty, ret |-> r])
  /\ UNCHANGED <<now, config, pc, epoch, job_queue, tables, user_versions,
                 jobs, outbox, msg, reply, resolved, sessions>>

process_tell_request_call ==
  /\ Len(calls) < MaxSearches
  /\ \E q \in Queries, choice \in Choices :
       \E r \in search_comprehensive(deepseek, entries, entities,
                                     entry_entities, 1, q) :
         calls' = Append(calls,
                    [op |-> "process_tell_request", query |-> q,
                     search |-> r,
                     ret |-> process_tell_request(deepseek, r, q, choice)])
  /\ UNCHANGED <<now, config, pc, epoch, job_queue, tables, user_versions,
                 jobs, outbox, msg, reply, resolved, sessions>>

NextSearch ==
  \/ search_entities_call
  \/ process_tell_request_call

SpecSearch == InitSearch /\ [][NextSearch]_vars

\* send_release_announcements step by step.  A run suspends at each
\* await bot.send_message (bot.py:171-173); everything between two awaits
\* runs without interruption.  The runs are those of the broadcast job that
\* main() schedules (bot.py:824, 187-203) and of the message handlers
\* (ensure_release_announcements, bot.py:178-184), one handler at a time.
Runners == {"job", "handler"}
Ready(home, left) ==
  [pc |-> home, user_id |-> 0, pending |-> <<>>, i |-> 0, left |-> left]
\* the order of get_known_user_ids: ORDER BY user_id (database.py:494-515)
RECURSIVE Ascending(_)
Ascending(S) ==
  IF S = {} THEN <<>> ELSE <<Min(S)>> \o Ascending(S \ {Min(S)})

\* bot.py:164-170: the read of the pointer and of the pending list; with
\* nothing pending the pointer may be moved to CURRENT_VERSION and the run
\* ends, else the first send is awaited
run_begins(s, home, left, user_id, update_ok) ==
  /\ sessions' =
       [sessions EXCEPT ![s] =
          IF get_pending_releases(user_versions[user_id]) = <<>>
          THEN Ready(home, left)
          ELSE [pc |-> "send", user_id |-> user_id,
                pending |-> get_pending_releases(user_versions[user_id]),
                i |-> 1, left |-> left]]
  /\ user_versions' =
       IF /\ get_pending_releases(user_versions[user_id]) = <<>>
          /\ user_versions[user_id] # CURRENT_VERSION
          /\ update_ok
       THEN update_user_last_seen_version(user_versions, user_id,
                                          CURRENT_VERSION)
       ELSE user_versions
  /\ UNCHANGED calls

\* a handler reaches ensure_release_announcements (bot.py:396, 588, 794)
handler_announces ==
  /\ sessions["handler"].pc = "idle"
  /\ Len(calls) < MaxSends
  /\ \E u \in Users, update_ok \in BOOLEAN :
       run_begins("handler", "idle", <<>>, u, update_ok)
  /\ UNCHANGED <<now, config, pc, epoch, job_queue, tables, jobs, outbox,
                 msg, reply, resolved>>

\* broadcast_release_announcements starts (bot.py:190-196)
broadcast_starts ==
  /\ sessions["job"].pc = "scheduled"
  /\ sessions' = [sessions EXCEPT !["job"] =
                    Ready("next", Ascending(get_known_user_ids))]
  /\ UNCHANGED <<now, config, pc, epoch, job_queue, tables, user_versions,
                 jobs, outbox, msg, reply, resolved, calls>>

\* for user_id in user_ids (bot.py:197-201)
broadcast_next ==
  /\ sessions["job"].pc = "next"
  /\ IF sessions["job"].left = <<>>
     THEN /\ sessions' = [sessions EXCEPT !["job"] = Ready("done", <<>>)]
          /\ UNCHANGED <<user_versions, calls>>
     ELSE \E update_ok \in BOOLEAN :
            run_begins("job", "next", Tail(sessions["job"].left),
                       Head(sessions["job"].left), update_ok)
  /\ UNCHANGED <<now, config, pc, epoch, job_queue, tables, jobs, outbox,
                 msg, reply, resolved>>

\* an awaited send_message returns or raises (bot.py:172-173); after the
\* last one the pointer is written (bot.py:175), a write that may raise.
\* Whatever is raised ends the run: both callers catch and log it.
send_returns ==
  \E s \in Runners, sent \in BOOLEAN, update_ok \in BOOLEAN :
    /\ sessions[s].pc = "send"
    /\ calls' = Append(calls,
                  [op |-> "send_message", runner |-> s,
                   user_id |-> sessions[s].user_id,
                   version |-> sessions[s].pending[sessions[s].i].version,
                   ok |-> sent])
    /\ sessions' =
         [sessions EXCEPT ![s] =
            IF sent /\ sessions[s].i < Len(sessions[s].pending)
            THEN [@ EXCEPT !.i = @ + 1]
            ELSE Ready(IF s = "job" THEN "next" ELSE "idle", @.left)]
    /\ user_versions' =
         IF sent /\ sessions[s].i = Len(sessions[s].pending) /\ update_ok
         THEN update_user_last_seen_version(
                user_versions, sessions[s].user_id,
                sessions[s].pending[Len(sessions[s].pending)].version)
         ELSE user_versions
    /\ UNCHANGED <<now, config, pc, epoch, job_queue, tables, jobs, outbox,
                   msg, reply, resolved>>

\* the process is up with its broadcast job scheduled; the users who wrote
\* before are known from their entries
InitAnnounce ==
  /\ pc = "running"
  /\ epoch = 1
  /\ job_queue = TRUE
  /\ jobs = EmptyJobs
  /\ outbox = EmptyJobs
  /\ msg = NoMessage
  /\ reply = <<>>
  /\ resolved = NotResolved
  /\ calls = <<>>
  /\ now = StartInstant
  /\ tz = 0
  /\ systz = 0
  /\ deepseek = FALSE
  /\ entities = <<>> /\ tags = <<>> /\ reminders = <<>>
  /\ entry_entities = {} /\ entry_tags = {}
  /\ \E known \in SUBSET Users :
       entries = [i \in 1 .. Cardinality(known) |->
                    add_entry(<<>>, Ascending(known)[i], Str(<<T("privet")>>),
                              "text", StartInstant)[1]]
  /\ user_versions \in [Users -> {"None", CURRENT_VERSION}]
  /\ sessions = [s \in Runners |->
                   Ready(IF s = "job" THEN "scheduled" ELSE "idle", <<>>)]

NextAnnounce ==
  \/ handler_announces
  \/ broadcast_starts
  \/ broadcast_next
  \/ send_returns

SpecAnnounce == InitAnnounce /\ [][NextAnnounce]_vars

\* The response composer under direct calls: the two template replies over
\* search results of every size up to MaxFound, with entry texts around the
\* lengths at which they are cut, and format_final_response over generated
\* texts of one or two sentences.
Filler(n) == Str(<<Chars(n)>>)
FoundTexts ==
  {Str(<<T("vasya"), T("kupil"), T("kota")>>), Filler(80), Filler(81),
   Filler(101), Str(<<T("vasya"), Chars(100)>>)}
FoundEntities(n) ==
  [i \in 1 .. n |-> [id |-> i, name |-> Word(Alphabet[i]), type |-> "person",
                     mention_count |-> 0, match_priority |-> 1]]
Bundles ==
  {[raises |-> "None", entities_found |-> FoundEntities(n),
    entries_found |-> [i \in DOMAIN texts |->
                         [id |-> i, original_text |-> texts[i]]],
    related_entities |-> <<>>, total_entries |-> Len(texts)] :
     n \in 0 .. MaxFound,
     texts \in UNION {[1 .. m -> FoundTexts] : m \in 0 .. MaxFound}}
ComposeQueries ==
  {Str(<<T("rasskazhi"), T("o"), T("vase")>>), Str(<<T("rasskazhi")>>)}

Sentences ==
  {<<Lower("vasya"), Lower("kupil"), Lower("kota")>>,
   <<Capital("vasya"), Lower("zvonil")>>,
   <<Capital("rekomenduyu"), Lower("spat")>>,
   <<Lower("ya"), Lower("rekomenduyu"), Lower("spat")>>,
   <<Capital("eta"), Lower("informatsiya"), Lower("sokhranena"), Lower("v"),
     Lower("sisteme")>>}
Responses ==
  UNION {{text, Append(text, <<>>)} :
           text \in UNION {[1 .. n -> Sentences] : n \in 1 .. 2}}
Tones == {"informative", "caring"}

InitCompose ==
  /\ Offline
  /\ sessions = <<>>
  /\ EmptyDatabase
  /\ now = StartInstant
  /\ tz = 0
  /\ systz = 0
  /\ deepseek \in BOOLEAN

simple_data_response_call ==
  /\ Len(calls) < MaxReplies
  /\ \E q \in ComposeQueries, b \in Bundles,
        header \in Alternatives, suggestion \in Alternatives :
       /\ has_data(b)
       /\ calls' = Append(calls,
                     [op |-> "simple_data_response", query |-> q,
                      results |-> b,
                      ret |-> generate_simple_data_response(
                                q, b, header, suggestion)])
  /\ UNCHANGED <<now, config, pc, epoch, job_queue, tables, user_versions,
                 jobs, outbox, msg, reply, resolved, sessions>>

fallback_response_call ==
  /\ Len(calls) < MaxReplies
  /\ deepseek
  /\ \E q \in ComposeQueries, b \in Bundles :
       calls' = Append(calls,
                  [op |-> "fallback_response", query |-> q, results |-> b,
                   ret |-> fallback_response(q, b)])
  /\ UNCHANGED <<now, config, pc, epoch, job_queue, tables, user_versions,
                 jobs, outbox, msg, reply, resolved, sessions>>

format_final_response_call ==
  /\ Len(calls) < MaxReplies
  /\ deepseek
  /\ \E text \in Responses, tone \in Tones :
       calls' = Append(calls,
                  [op |-> "format_final_response",
                   ai_response |-> [response |-> text, tone |-> tone],
                   ret |-> format_final_response(
                             [response |-> text, tone |-> tone])])
  /\ UNCHANGED <<now, config, pc, epoch, job_queue, tables, user_versions,
                 jobs, outbox, msg, reply, resolved, sessions>>

NextCompose ==
  \/ simple_data_response_call
  \/ fallback_response_call
  \/ format_final_response_call

SpecCompose == InitCompose /\ [][NextCompose]_vars

\* The searches of SmartSearchEngine called for either user over databases
\* that hold the notes of both
OwnedNotes ==
  {[user_id |-> u, text |-> n.text, entities |-> n.entities] :
     u \in Users, n \in Notes}
OwnedNoteLists == UNION {[1 .. n -> OwnedNotes] : n \in 0 .. MaxNotes}

\* process_text_entry for each note in turn: add_entry, then the entities
\* and their links (bot.py:468-504)
RECURSIVE stored(_, _, _)
stored(d, notes, i) ==
  IF i > Len(notes) THEN d
  ELSE stored(save_entities(
                [d EXCEPT !.entries = add_entry(@, notes[i].user_id,
                                                notes[i].text, "text",
                                                StartInstant)],
                Len(d.entries) + 1, notes[i].user_id, notes[i].entities,
                1).db,
              notes, i + 1)

TextKeywords == {{"vasya"}, {"kota"}, {"ivanov", "zvonil"}}

InitOwners ==
  /\ Offline
  /\ sessions = <<>>
  /\ now = StartInstant
  /\ tz = 0
  /\ systz = 0
  /\ deepseek = FALSE
  /\ tags = <<>> /\ entry_tags = {} /\ reminders = <<>>
  /\ user_versions = [u \in Users |-> "None"]
  /\ \E notes \in OwnedNoteLists :
       /\ entries = stored([entries |-> <<>>, entities |-> <<>>,
                            entry_entities |-> {}], notes, 1).entries
       /\ entities = stored([entries |-> <<>>, entities |-> <<>>,
                             entry_entities |-> {}], notes, 1).entities
       /\ entry_entities =
            stored([entries |-> <<>>, entities |-> <<>>,
                    entry_entities |-> {}], notes, 1).entry_entities

search_entities_for ==
  /\ Len(calls) < MaxLookups
  /\ \E u \in Users, kws \in SearchKeywords, ty \in {"None", "person"} :
       \E r \in search_entities(entities, entry_entities, u, kws, ty) :
         calls' = Append(calls, [op |-> "search_entities", user_id |-> u,
                                 keywords |-> kws, entity_type |-> ty,
                                 ret |-> r])
  /\ UNCHANGED <<now, config, pc, epoch, job_queue, tables, user_versions,
                 jobs, outbox, msg, reply, resolved, sessions>>

search_entries_by_entities_for ==
  /\ Len(calls) < MaxLookups
  /\ \E u \in Users, ids \in SUBSET DOMAIN entities :
       calls' = Append(calls,
                  [op |-> "search_entries_by_entities", user_id |-> u,
                   entity_ids |-> ids,
                   ret |-> named_rows(entities, entry_entities,
                             search_entries_by_entities(
                               entries, entry_entities, u, ids))])
  /\ UNCHANGED <<now, config, pc, epoch, job_queue, tables, user_versions,
                 jobs, outbox, msg, reply, resolved, sessions>>

search_entries_by_text_for ==
  /\ Len(calls) < MaxLookups
  /\ \E u \in Users, kws \in TextKeywords :
       calls' = Append(calls,
                  [op |-> "search_entries_by_text", user_id |-> u,
                   keywords |-> kws,
                   ret |-> named_rows(entities, entry_entities,
                             search_entries_by_text(entries, u, kws))])
  /\ UNCHANGED <<now, config, pc, epoch, job_queue, tables, user_versions,
                 jobs, outbox, msg, reply, resolved, sessions>>

get_related_entities_for ==
  /\ Len(calls) < MaxLookups
  /\ \E u \in Users, id \in DOMAIN entities :
       \E r \in get_related_entities(entities, entry_entities, u, id) :
         calls' = Append(calls, [op |-> "get_related_entities",
                                 user_id |-> u, entity_id |-> id, ret |-> r])
  /\ UNCHANGED <<now, config, pc, epoch, job_queue, tables, user_versions,
                 jobs, outbox, msg, reply, resolved, sessions>>

NextOwners ==
  \/ search_entities_for
  \/ search_entries_by_entities_for
  \/ search_entries_by_text_for
  \/ get_related_entities_for

SpecOwners == InitOwners /\ [][NextOwners]_vars

\* ==================================================================== properties
\* the instant a stored trigger_date names: it is the user's wall clock
TriggerInstant(row) == Norm(row.trigger_date.day, row.trigger_date.sec - tz)
\* the sends of reminder i that went out
Delivered(box, i) == {m \in DOMAIN box : m.reminder_id = i /\ m.ok}
\* the send attempts of reminder i
Attempts(box, i) == {m \in DOMAIN box : m.reminder_id = i}

\* C1: across handling, firing, send failures, failures of the completed
\* write and restarts with re-hydration, the text of each reminder is sent
\* successfully at most once, and only to the user who owns the reminder.
C1_AtMostOneDelivery ==
  \A m \in DOMAIN outbox :
    /\ m.reminder_id \in DOMAIN reminders
    /\ m.ok =>
         /\ Count(outbox, Delivered(outbox, m.reminder_id)) = 1
         /\ m.to = reminders[m.reminder_id].user_id
         /\ m.text = reminders[m.reminder_id].text

\* C1 witness: a reminder went out, the completed write failed so that it is
\* still active, and a later run of the process has re-hydrated with a job
\* queue while the stored wall clock still reads later than the UTC clock.
C1_Witness ==
  \E m \in DOMAIN outbox :
    /\ m.ok
    /\ reminders[m.reminder_id].status = "active"
    /\ m.epoch < epoch
    /\ pc = "running" /\ job_queue
    /\ m.reminder_id \in get_future_active_reminders(reminders, now)

\* C2: with a job queue, scheduling a reminder (at its creation by a handler
\* or at the re-hydration) registers exactly one one-shot job for it, due at
\* its trigger instant, when that instant is strictly after now, and none
\* when it is at or before now; no other reminder's jobs change.
C2_Scheduled(i) ==
  /\ Registered(jobs', i) =
       IF Before(now, TriggerInstant(reminders'[i])) THEN 1 ELSE 0
  /\ \A j \in DOMAIN jobs' :
       j.name = i => /\ j.when = TriggerInstant(reminders'[i])
                     /\ j.user_id = reminders'[i].user_id
                     /\ j.text = reminders'[i].text
C2_ScheduleRegistersOnce ==
  [][job_queue' =>
       /\ \A i \in DOMAIN reminders' \ DOMAIN reminders :
            /\ C2_Scheduled(i)
            /\ \A k \in DOMAIN reminders :
                 Registered(jobs', k) = Registered(jobs, k)
       /\ (pc = "down" /\ pc' = "running") =>
            \A i \in get_future_active_reminders(reminders, now) :
              C2_Scheduled(i)]_vars

\* C2 witness: a handler has just created a reminder whose trigger instant
\* is not after now, the job queue is there, and no job was registered.
C2_Witness ==
  /\ pc = "running" /\ job_queue /\ epoch = 1
  /\ now = StartInstant
  /\ \E i \in DOMAIN reminders :
       /\ AtOrBefore(TriggerInstant(reminders[i]), now)
       /\ Registered(jobs, i) = 0
  /\ outbox = EmptyJobs

\* C3: after the re-hydration of a start with a job queue, every active
\* reminder whose trigger instant is still in the future has exactly one job
\* registered, and no completed or past reminder has one.
C3_RehydrationComplete ==
  [][(pc = "down" /\ pc' = "running" /\ job_queue') =>
       \A i \in DOMAIN reminders :
         Registered(jobs', i) =
           IF /\ reminders[i].status = "active"
              /\ Before(now, TriggerInstant(reminders[i]))
           THEN 1 ELSE 0]_vars

\* C4: the status of a reminder is always active or completed; a reminder
\* is created active; the only change is from active to completed, in the
\* step in which its job delivered it; no reminder is deleted or changed
\* otherwise.
C4_StatusLifecycle ==
  [][/\ \A i \in DOMAIN reminders' \ DOMAIN reminders :
          reminders'[i].status = "active"
     /\ \A i \in DOMAIN reminders :
          /\ i \in DOMAIN reminders'
          /\ reminders'[i].status \in {"active", "completed"}
          /\ reminders'[i] # reminders[i] =>
               /\ reminders[i].status = "active"
               /\ reminders'[i] = [reminders[i] EXCEPT !.status = "completed"]
               /\ Count(outbox', Delivered(outbox', i)) =
                    Count(outbox, Delivered(outbox, i)) + 1]_vars

\* C4 witness: one reminder has been delivered and is completed while the
\* process has since stopped.
C4_Witness ==
  /\ pc = "down"
  /\ \E i \in DOMAIN reminders :
       /\ reminders[i].status = "completed"
       /\ Count(outbox, Delivered(outbox, i)) = 1

\* C5: once a send of a reminder has failed in a run of the process, that
\* run attempts no second send of it and the reminder is active in every
\* later state of the run.
C5_FailedSendStaysActive ==
  \A m \in DOMAIN outbox :
    (~m.ok /\ m.epoch = epoch) =>
      /\ reminders[m.reminder_id].status = "active"
      /\ Count(outbox, {a \in Attempts(outbox, m.reminder_id) :
                          a.epoch = epoch}) = 1

\* C5 witness: a send failed, and the same run of the process is an hour
\* further on.
C5_Witness ==
  \E m \in DOMAIN outbox :
    /\ ~m.ok /\ m.epoch = epoch /\ pc = "running"
    /\ Before(m.at, now)

\* C6: a saved message that holds a single reminder request creates exactly
\* one reminder row, active, and with a job queue exactly one job when its
\* trigger is ahead, however many candidates the extraction rules produce.
C6_NewRows == DOMAIN reminders' \ DOMAIN reminders
C6_OneReminderPerMessage ==
  [][(Len(entries') = Len(entries) + 1 /\ reply' = <<"saved">>) =>
       /\ Cardinality(C6_NewRows) = 1
       /\ \A i \in C6_NewRows :
            /\ reminders'[i].status = "active"
            /\ (job_queue /\ Before(now, TriggerInstant(reminders'[i]))) =>
                 Count(jobs', {j \in DOMAIN jobs' : j.name \in C6_NewRows}) = 1
     ]_vars

\* C7: when no classifier is configured, or the configured one fails, the
\* handler takes the message as SAVE_INFO with its text, and an entry with
\* that text, of that user and source, is stored.
C7_FallbackSaves ==
  (msg.handled /\ msg.intent_outcome \in {"unconfigured", "fail"}) =>
    /\ msg.intent = "SAVE_INFO"
    /\ reply \in {<<"saved">>, <<"error">>}
    /\ Len(entries) >= 1
    /\ entries[Len(entries)].user_id = msg.user_id
    /\ entries[Len(entries)].original_text = msg.text
    /\ entries[Len(entries)].source_type = msg.source_type

\* C7 witness: the configured classifier failed on a voice message and the
\* transcript was saved.
C7_Witness ==
  /\ msg.handled /\ msg.intent_outcome = "fail" /\ msg.source_type = "voice"
  /\ deepseek
  /\ reply = <<"saved">>
  /\ Len(entries) = 1 /\ entries[1].original_text = msg.text

\* C8: handling a message classified GREETING, text or voice, leaves
\* entries, entities, tags, both link tables and reminders as they were and
\* makes exactly one conversational reply.
C8_GreetingWritesNothing ==
  [][(pc = "running" /\ pc' = "running" /\ msg'.handled
      /\ msg'.intent = "GREETING") =>
       /\ UNCHANGED tables
       /\ reply' = <<"greeting">>]_vars

\* C8 witness: a voice message was classified GREETING and answered.
C8_Witness ==
  /\ msg.handled /\ msg.intent = "GREETING" /\ msg.source_type = "voice"
  /\ reply = <<"greeting">>

\* C9: when the classification service is configured and its call fails, by
\* transport or by invalid JSON, the entities, tags and reminders stored for
\* the message are those of the rule-based extractor.
C9_Entry == Len(entries)
C9_Rules == categorize_text(msg.text)
C9_FailureFallsBackToRules ==
  (msg.handled /\ msg.ai \in {"error", "bad_json"}) =>
    /\ {entities[l.entity_id].name :
          l \in {x \in entry_entities : x.entry_id = C9_Entry}}
         = {strip(lower(C9_Rules.entities[i].name)) :
              i \in DOMAIN C9_Rules.entities}
    /\ {tags[l.tag_id].name :
          l \in {x \in entry_tags : x.entry_id = C9_Entry}}
         = {strip(lower(t)) : t \in C9_Rules.tags}
    /\ {reminders[i].text :
          i \in {k \in DOMAIN reminders : reminders[k].entry_id = C9_Entry}}
         = {C9_Rules.reminders[i].text : i \in DOMAIN C9_Rules.reminders}

\* C10: parse_reminder_datetime never raises and returns a timestamp aware
\* of the user zone, for every "в H[:MM]" with H of one or two digits and MM
\* of two, and for every "через N <unit>" with N any digit string.
C10_ResolverTotal ==
  reply = <<"parsed">> =>
    /\ resolved.raises = "None"
    /\ resolved.dt.aware
    /\ resolved.dt.off = tz

\* C11: for a phrase holding "через N минут", whatever date word follows,
\* parse_reminder_datetime returns the instant N minutes after now.
C11_Minutes == msg.text.toks[4].a
C11_MinutesFromNow ==
  (reply = <<"parsed">> /\ msg.text \in MinuteTexts) =>
    /\ resolved.raises = "None"
    /\ Instant(resolved.dt) = PlusSeconds(now, C11_Minutes * 60)

\* C12: for every weekday-name phrase and every current day of the week the
\* date parse_text resolves falls on the named weekday, is not before today
\* and is at most 7 days ahead; it is today only if today is that weekday.
C12_Today(c) == naive_now(c.at).day
C13_AbsoluteDateParsed ==
  \A i \in DOMAIN calls : \A t \in Dates :
    (/\ calls[i].op = "parse_text" /\ ValidDate(t[1], t[2], t[3])
     /\ calls[i].text \in AbsoluteTexts(t[1], t[2], t[3])) =>
      /\ calls[i].ret.datetime.found
      /\ calls[i].ret.datetime.dt.day = toordinal(t[1], t[2], t[3])
      /\ calls[i].ret.confidence = 8

\* C14: add_entity calls for one owner and type with names equal after
\* lowercasing and trimming return one identifier, the table holds exactly
\* one row for that owner, normalized name and type, and every stored entity
\* and tag name is its own lowercased, trimmed form.
C14_SameEntity(c, d) ==
  /\ c.op = "add_entity" /\ d.op = "add_entity"
  /\ c.user_id = d.user_id /\ c.type = d.type
  /\ strip(lower(c.name)) = strip(lower(d.name))
C14_Rows(c) ==
  {k \in DOMAIN entities :
     /\ entities[k].user_id = c.user_id /\ entities[k].type = c.type
     /\ entities[k].name = strip(lower(c.name))}
C14_UpsertIdempotent ==
  /\ \A i, j \in DOMAIN calls :
       C14_SameEntity(calls[i], calls[j]) =>
         /\ calls[i].ret = calls[j].ret
         /\ C14_Rows(calls[i]) = {calls[i].ret}
  /\ \A k \in DOMAIN entities :
       entities[k].name = strip(lower(entities[k].name))
  /\ \A k \in DOMAIN tags : tags[k].name = strip(lower(tags[k].name))

\* C14 witness: two calls, one after the other, gave the same name in
\* different case or padding, and another entity was created in between
C14_Witness ==
  \E i, j \in DOMAIN calls :
    /\ i < j /\ C14_SameEntity(calls[i], calls[j])
    /\ calls[i].name # calls[j].name
    /\ ~calls[i].overlap /\ ~calls[j].overlap
    /\ Len(entities) = 2

\* C15: when two callers are inside add_entity (or add_tag) for the same
\* owner, normalized name and type at once, then however their statements
\* interleave one row exists and both obtain its identifier.
C15_Table(c) == IF c.op = "add_entity" THEN entities ELSE tags
C15_ConcurrentUpsert ==
  \A i, j \in DOMAIN calls :
    (/\ calls[i].op \in {"add_entity", "add_tag"}
     /\ calls[j].op \in {"add_entity", "add_tag"}
     /\ calls[i].caller # calls[j].caller
     /\ calls[i].overlap /\ calls[j].overlap
     /\ SameRow(calls[i], calls[j])) =>
      /\ calls[i].ret = calls[j].ret
      /\ {k \in DOMAIN C15_Table(calls[i]) :
            C15_Table(calls[i])[k] = SessionRow(calls[i])} = {calls[i].ret}

\* C15 witness: both callers were inside add_entity for the same row at
\* once, with names that differ before normalization, and both returned
C15_Witness ==
  \E i, j \in DOMAIN calls :
    /\ calls[i].op = "add_entity" /\ calls[j].op = "add_entity"
    /\ calls[i].caller # calls[j].caller
    /\ calls[i].overlap /\ calls[j].overlap
    /\ SameRow(calls[i], calls[j])
    /\ calls[i].name # calls[j].name

\* C16: a link_entry_entity or link_entry_tag call whose arguments were
\* linked before leaves both link tables as they were, and the mention
\* count of every entity is the number of distinct entries linked to it.
C16_Repeated(c) ==
  /\ c.op \in {"link_entry_entity", "link_entry_tag"}
  /\ \E i \in DOMAIN calls : calls[i] = c
CallsOf(op) == {i \in DOMAIN calls : calls[i].op = op}

\* C17: in every list search_entities returns, an entity whose name is
\* exactly one of the keywords comes before every other returned entity
\* whose name only contains that keyword, whatever their mention counts
C17_ExactNameFirst ==
  \A c \in CallsOf("search_entities") :
    \A k \in DOMAIN calls[c].keywords :
      \A i, j \in DOMAIN calls[c].ret :
        (/\ calls[c].ret[i].name = strip(lower(calls[c].keywords[k]))
         /\ calls[c].ret[j].name # strip(lower(calls[c].keywords[k]))
         /\ Contains(calls[c].ret[j].name, strip(lower(calls[c].keywords[k]))))
          => i < j

\* the reply is the 'no information yet' template, which is never empty
IsNoData(ret) == ret # <<>> /\ ret[1].part = "no_data"
\* the reply lists what was found
IsListing(ret) ==
  /\ ret # <<>>
  /\ ret[1].part \in {"found_data", "found_data_topic"}
  /\ \E i \in DOMAIN ret : ret[i].part \in {"entities", "entries"}
FoundNothing(search) ==
  /\ search.raises = "None"
  /\ search.entities_found = <<>>
  /\ search.entries_found = <<>>

C19_TemplateDeterministic ==
  \A c, d \in CallsOf("process_tell_request") :
    (/\ ~deepseek
     /\ calls[c].query = calls[d].query
     /\ calls[c].search = calls[d].search)
      => calls[c].ret = calls[d].ret

\* the topic of the query has matching data: the rule-based search of the
\* stored notes finds an entity or an entry
HasMatchingData(query) ==
  \E r \in search_by_rules(entries, entities, entry_entities, 1,
                           parse_query(query)) : has_data(r)

\* C20: for a query whose topic has matching data, process_tell_request
\* returns a reply that lists the found data, with the completion service
\* configured or not, and never the 'error while searching' apology
C20_ListsFoundData ==
  \A c \in CallsOf("process_tell_request") :
    HasMatchingData(calls[c].query)
      => calls[c].ret # apology /\ IsListing(calls[c].ret)

\* the sends of a release to a user that went out
Announced(u, v) ==
  {i \in DOMAIN calls : /\ calls[i].op = "send_message"
                        /\ calls[i].user_id = u
                        /\ calls[i].version = v
                        /\ calls[i].ok}

\* C21: over the runs of send_release_announcements by the broadcast job
\* and by the handlers, interleaved at the sends and with sends or the
\* pointer write failing, each active release goes out to a user at most
\* once
C21_AnnouncedOnce ==
  \A u \in Users : \A r \in DOMAIN RELEASES :
    Cardinality(Announced(u, RELEASES[r].version)) <= 1

\* C22: for every generated response whose text is not empty,
\* format_final_response returns a text that is not empty
C22_ReplyNotEmpty ==
  \A c \in CallsOf("format_final_response") :
    calls[c].ai_response.response # EmptyText => calls[c].ret # EmptyText

\* the part of a listing with the given name, if it has one
PartsOf(ret, part) == {i \in DOMAIN ret : ret[i].part = part}
\* listed is the original text, or its first characters, at most limit of
\* them, followed by an ellipsis
IsStartOf(body, toks) ==
  /\ Len(body) <= Len(toks)
  /\ \A i \in DOMAIN body :
       \/ body[i] = toks[i]
       \/ /\ i = Len(body)
          /\ body[i].k = "chars"
          /\ body[i].a <= WordLen(toks[i])
IsCutOf(listed, original, limit) ==
  \/ listed = original /\ CharLen(original.toks) <= limit
  \/ /\ listed.toks # <<>>
     /\ listed.toks[Len(listed.toks)] = Ellipsis
     /\ listed # original
     /\ CharLen(SubSeq(listed.toks, 1, Len(listed.toks) - 1)) <= limit
     /\ IsStartOf(SubSeq(listed.toks, 1, Len(listed.toks) - 1), original.toks)
TemplateReplies ==
  {c \in DOMAIN calls :
     /\ calls[c].op \in {"simple_data_response", "fallback_response"}
     /\ has_data(calls[c].results)}

\* C23: a template reply for search results with an entity or an entry
\* lists at most 3 entity names and at most 3 entries, and every entry
\* listed is the original text or its first characters, at most 100 of
\* them, followed by an ellipsis
C23_ListingBounded ==
  \A c \in TemplateReplies :
    /\ \A i \in PartsOf(calls[c].ret, "entities") :
         Len(calls[c].ret[i].words) <= 3
    /\ \A i \in PartsOf(calls[c].ret, "entries") :
         /\ Len(calls[c].ret[i].words) <= 3
         /\ \A j \in DOMAIN calls[c].ret[i].words :
              IsCutOf(calls[c].ret[i].words[j],
                      calls[c].results.entries_found[j].original_text, 100)

\* C23 witness: a reply for results with more than 3 entities and more than
\* 3 entries, one of the listed texts cut
C23_Witness ==
  \E c \in TemplateReplies :
    /\ Len(calls[c].results.entities_found) > 3
    /\ Len(calls[c].results.entries_found) > 3
    /\ \E i \in PartsOf(calls[c].ret, "entries") :
         \E j \in DOMAIN calls[c].ret[i].words :
           calls[c].ret[i].words[j]
             # calls[c].results.entries_found[j].original_text

\* a piece holds a denylisted phrase, in whatever letter case
Unwanted(piece) ==
  \E p \in DOMAIN unwanted_phrases : InPiece(piece, unwanted_phrases[p], FALSE)
\* the sentences of a text that hold no denylisted phrase, in their order
\* and without the mark put before an informative response
Unmarked(piece) ==
  IF piece # <<>> /\ Head(piece) = Lower("(chart)") THEN Tail(piece) ELSE piece
CleanSentences(text) ==
  SelectSeq([i \in DOMAIN text |-> Unmarked(text[i])],
            LAMBDA piece : piece # <<>> /\ ~Unwanted(piece))

\* C27: the text format_final_response returns holds no denylisted phrase
\* in any letter case, and its sentences are the sentences of the input
\* that hold no denylisted phrase, in their original order
C27_DenylistRemoved ==
  \A c \in CallsOf("format_final_response") :
    /\ \A i \in DOMAIN calls[c].ret : ~Unwanted(calls[c].ret[i])
    /\ CleanSentences(calls[c].ret)
         = CleanSentences(calls[c].ai_response.response)

\* C24: for a clock clause "в H[:MM] <qualifier>" with H from 1 to 11 the
\* resolved time of day has the hour H + 12 when the qualifier is дня or
\* вечера and the hour H when it is утра, ночи or absent, the minutes MM (0
\* when omitted) and the seconds 0.
C24_Hour == msg.text.toks[4].a
C24_Minute == IF msg.text.toks[4].k = "hm" THEN msg.text.toks[4].b ELSE 0
C24_Qualifier ==
  IF Len(msg.text.toks) >= 5 THEN msg.text.toks[5].k ELSE "None"
C24_TwelveHourClock ==
  (reply = <<"parsed">> /\ msg.text \in QualifiedTexts
     /\ C24_Hour \in 1 .. 11) =>
    /\ resolved.raises = "None"
    /\ resolved.dt.sec
         = (IF C24_Qualifier \in {"dnya", "vechera"} THEN C24_Hour + 12
            ELSE C24_Hour) * HOUR + C24_Minute * 60

\* C25: a phrase with no clock clause whose date does not come from a
\* relative duration resolves to 09:00, 13:00, 19:00 or 23:00 when it holds
\* the word for morning, afternoon, evening or night, and to 10:00 when it
\* holds none.
C25_Word == msg.text.toks[Len(msg.text.toks)].k
C25_TimeOfDayDefault ==
  (reply = <<"parsed">> /\ msg.text \in WordTexts) =>
    /\ resolved.raises = "None"
    /\ resolved.dt.sec
         = (CASE C25_Word = "utrom" -> 9 [] C25_Word = "dnem" -> 13
              [] C25_Word = "vecherom" -> 19 [] C25_Word = "nochyu" -> 23
              [] OTHER -> 10) * HOUR

\* C26: in a search_entities call with several keywords the returned list
\* is ordered by match priority, then mention count, then name, where the
\* match priority of an entity is the best of exact, prefix and substring
\* over every keyword and every morphological variant of a keyword; so an
\* entity whose name equals any keyword or variant comes before every
\* entity matched only by prefix or substring.
C26_Forms(keywords) ==
  UNION {search_forms(keywords[k]) : k \in DOMAIN keywords}
C26_Priority(name, keywords) ==
  IF \E f \in C26_Forms(keywords) : name = f THEN 3
  ELSE IF \E f \in C26_Forms(keywords) : StartsWith(name, f) THEN 2
  ELSE 1
C26_Before(x, y, keywords) ==
  \/ C26_Priority(x.name, keywords) > C26_Priority(y.name, keywords)
  \/ /\ C26_Priority(x.name, keywords) = C26_Priority(y.name, keywords)
     /\ \/ x.mention_count > y.mention_count
        \/ /\ x.mention_count = y.mention_count
           /\ NameLess(x.name.toks, y.name.toks, 1)
C26_BestMatchOverKeywords ==
  \A c \in CallsOf("search_entities") :
    Len(calls[c].keywords) > 1 =>
      \A i, j \in DOMAIN calls[c].ret :
        C26_Before(calls[c].ret[i], calls[c].ret[j], calls[c].keywords)
          => i < j

\* C28: when the handling of a message that takes the save branch ends
\* with the generic error reply, no row that this run of the handler
\* created remains: entries, entities, tags, both link tables and
\* reminders are as they were before the message.
C28_FailedSaveLeavesNothing ==
  [][(msg'.handled /\ msg'.intent \in {"SAVE_INFO", "UNKNOWN"}
      /\ reply' = <<"error">>) => UNCHANGED tables]_vars

\* C30: whenever the classification service returned a JSON object, also
\* one without the "reminders" key or with an entity that lacks "name" or
\* "type", the save completes with the confirmation reply and never with
\* the generic error reply.
C30_ValidatedResultSaves ==
  (msg.handled /\ msg.ai = "ok") => reply = <<"saved">>

\* C29: every entity and every entry that a search for user U returns
\* (search_entities with or without a type, search_entries_by_entities,
\* search_entries_by_text, get_related_entities) is owned by U, the names
\* joined to an entry included, and the result is the one the same call
\* gives on the database with the rows of every other user blanked.
C29_Entries(u) ==
  [i \in DOMAIN entries |->
     IF entries[i].user_id = u THEN entries[i]
     ELSE [user_id |-> 0, original_text |-> Str(<<>>), source_type |-> "text",
           parsed_date |-> NoDate]]
C29_Entities(u) ==
  [i \in DOMAIN entities |->
     IF entities[i].user_id = u THEN entities[i]
     ELSE [user_id |-> 0, name |-> Str(<<>>), type |-> "None"]]
C29_Links(u) == {l \in entry_entities : entries[l.entry_id].user_id = u}
C29_EntitiesOwned(c) ==
  \A i \in DOMAIN calls[c].ret :
    entities[calls[c].ret[i].id].user_id = calls[c].user_id
C29_EntriesOwned(c) ==
  \A i \in DOMAIN calls[c].ret :
    /\ entries[calls[c].ret[i].id].user_id = calls[c].user_id
    /\ \A n \in calls[c].ret[i].entity_names :
         \E k \in DOMAIN entities : /\ entities[k].name = n
                                    /\ entities[k].user_id = calls[c].user_id
C29_ResultsOwned ==
  /\ \A c \in CallsOf("search_entities") :
       /\ C29_EntitiesOwned(c)
       /\ calls[c].ret \in
            search_entities(C29_Entities(calls[c].user_id),
                            C29_Links(calls[c].user_id), calls[c].user_id,
                            calls[c].keywords, calls[c].entity_type)
  /\ \A c \in CallsOf("search_entries_by_entities") :
       /\ C29_EntriesOwned(c)
       /\ calls[c].ret =
            named_rows(C29_Entities(calls[c].user_id),
                       C29_Links(calls[c].user_id),
                       search_entries_by_entities(
                         C29_Entries(calls[c].user_id),
                         C29_Links(calls[c].user_id), calls[c].user_id,
                         calls[c].entity_ids))
  /\ \A c \in CallsOf("search_entries_by_text") :
       /\ C29_EntriesOwned(c)
       /\ calls[c].ret =
            named_rows(C29_Entities(calls[c].user_id),
                       C29_Links(calls[c].user_id),
                       search_entries_by_text(C29_Entries(calls[c].user_id),
                                              calls[c].user_id,
                                              calls[c].keywords))
  /\ \A c \in CallsOf("get_related_entities") :
       /\ C29_EntitiesOwned(c)
       /\ calls[c].ret \in
            get_related_entities(C29_Entities(calls[c].user_id),
                                 C29_Links(calls[c].user_id),
                                 calls[c].user_id, calls[c].entity_id)

\* C29 witness: a search by name returned an entity of the caller while
\* another user holds an entity that the same keywords match.
C29_Witness ==
  \E c \in CallsOf("search_entities") :
    /\ calls[c].ret # <<>>
    /\ \E k \in DOMAIN entities :
         /\ entities[k].user_id # calls[c].user_id
         /\ where_condition(entities[k].name, calls[c].keywords)

====
